---- MODULE Spec2Model ----
(***************************************************************************)
(* Chemical container safety backend (backend/main.py): the hazard         *)
(* compatibility engine calculate_hazard_status and the container          *)
(* approval workflow built on it.                                          *)
(***************************************************************************)
EXTENDS Integers, Sequences, FiniteSets, TLC

(***************************************************************************)
(* Python floats.  A finite float is written Fin(h, u): the double nearest *)
(* to the decimal h/100, moved by u units in the last place.  Two          *)
(* different h are far more than one ulp apart, so the order is            *)
(* lexicographic on (h, u).  INF is float('inf'); NULL is None / SQL NULL  *)
(* / JSON null.                                                            *)
(***************************************************************************)
Fin(h, u) == [kind |-> "fin", h |-> h, u |-> u]

INF == [kind |-> "inf", h |-> 0, u |-> 0]

NULL == [kind |-> "null", h |-> 0, u |-> 0]

\* Python's x >= y on floats (neither is NaN)
FGe(x, y) ==
    IF x.kind = "inf" THEN TRUE
    ELSE IF y.kind = "inf" THEN FALSE
    ELSE x.h > y.h \/ (x.h = y.h /\ x.u >= y.u)

\* Python's x == y on floats
FEq(x, y) == x.kind = y.kind /\ x.h = y.h /\ x.u = y.u

\* The rounding error, in ulps, of the IEEE-754 double product m * 0.6 against
\* the double nearest to the exact decimal value: 3.0 * 0.6 is
\* 1.7999999999999998, one ulp below the double 1.8; 5.0 * 0.6 is exactly 3.0.
UlpErr06(h) == IF h = 300 THEN -1 ELSE 0

\* min_distance * 0.6, for the finite min_distance values the code multiplies
FMul06(m) == Fin((m.h * 60) \div 100, m.u + UlpErr06(m.h))

(***************************************************************************)
(* Strings.  sorted() orders str by code point; StrOrder lists every       *)
(* string of the input domain in that order.                               *)
(***************************************************************************)
ClassCodes == {"2.1", "2.2", "2.3", "3", "4.1", "4.2", "4.3", "5.1", "5.2", "6", "8"}

StrOrder ==
    << "1", "2.1", "2.2", "2.3", "3", "4.1", "4.2", "4.3", "5.1", "5.2", "6",
       "6.1", "8", "9", "Corrosive", "Dangerous When Wet", "Explosive",
       "Flammable Gas", "Flammable Liquid", "Flammable Solid",
       "Non-Flammable Non-Toxic Gas", "Organic Peroxide", "Oxidizing Agent",
       "Spontaneously Combustible", "Toxic", "Toxic Gas" >>

Strings == {StrOrder[i] : i \in DOMAIN StrOrder}

StrRank(s) == CHOOSE i \in DOMAIN StrOrder : StrOrder[i] = s

\* mutation of SortedPair: the pair key is sorted in descending order
ReversedPair(a, b) == IF StrRank(a) <= StrRank(b) THEN <<b, a>> ELSE <<a, b>>

\* mutation of SortedPair: the pair key is not sorted
UnsortedPair(a, b) == <<a, b>>

\* tuple(sorted([a, b]))
SortedPair(a, b) == IF StrRank(a) <= StrRank(b) THEN <<a, b>> ELSE <<b, a>>

name_to_class ==
    ("Flammable Gas" :> "2.1") @@
    ("Non-Flammable Non-Toxic Gas" :> "2.2") @@
    ("Toxic Gas" :> "2.3") @@
    ("Flammable Liquid" :> "3") @@
    ("Flammable Solid" :> "4.1") @@
    ("Spontaneously Combustible" :> "4.2") @@
    ("Dangerous When Wet" :> "4.3") @@
    ("Oxidizing Agent" :> "5.1") @@
    ("Organic Peroxide" :> "5.2") @@
    ("Toxic" :> "6") @@
    ("Corrosive" :> "8")

\* name_to_class.get(x, x)
ClassCode(x) == IF x \in DOMAIN name_to_class THEN name_to_class[x] ELSE x

compatibility_matrix ==
    (<<"2.1", "2.1">> :> <<"OK_TOGETHER", Fin(0, 0)>>) @@
    (<<"2.1", "2.2">> :> <<"OK_TOGETHER", Fin(0, 0)>>) @@
    (<<"2.1", "2.3">> :> <<"SEGREGATE_3M", Fin(300, 0)>>) @@
    (<<"2.1", "3">> :> <<"SEGREGATE_5M", Fin(500, 0)>>) @@
    (<<"2.1", "4.1">> :> <<"SEGREGATE_5M", Fin(500, 0)>>) @@
    (<<"2.1", "4.2">> :> <<"SEGREGATE_5M", Fin(500, 0)>>) @@
    (<<"2.1", "4.3">> :> <<"SEGREGATE_5M", Fin(500, 0)>>) @@
    (<<"2.1", "5.1">> :> <<"SEGREGATE_3M", Fin(300, 0)>>) @@
    (<<"2.1", "5.2">> :> <<"ISOLATE", INF>>) @@
    (<<"2.1", "6">> :> <<"SEGREGATE_3M", Fin(300, 0)>>) @@
    (<<"2.1", "8">> :> <<"SEGREGATE_5M", Fin(500, 0)>>) @@
    (<<"2.2", "2.2">> :> <<"OK_TOGETHER", Fin(0, 0)>>) @@
    (<<"2.2", "2.3">> :> <<"OK_TOGETHER", Fin(0, 0)>>) @@
    (<<"2.2", "3">> :> <<"SEGREGATE_5M", Fin(500, 0)>>) @@
    (<<"2.2", "4.1">> :> <<"SEGREGATE_5M", Fin(500, 0)>>) @@
    (<<"2.2", "4.2">> :> <<"SEGREGATE_5M", Fin(500, 0)>>) @@
    (<<"2.2", "4.3">> :> <<"SEGREGATE_5M", Fin(500, 0)>>) @@
    (<<"2.2", "5.1">> :> <<"SEGREGATE_3M", Fin(300, 0)>>) @@
    (<<"2.2", "5.2">> :> <<"ISOLATE", INF>>) @@
    (<<"2.2", "6">> :> <<"SEGREGATE_3M", Fin(300, 0)>>) @@
    (<<"2.2", "8">> :> <<"SEGREGATE_5M", Fin(500, 0)>>) @@
    (<<"2.3", "2.3">> :> <<"MAY_NOT_COMPATIBLE", Fin(300, 0)>>) @@
    (<<"2.3", "3">> :> <<"SEGREGATE_5M", Fin(500, 0)>>) @@
    (<<"2.3", "4.1">> :> <<"SEGREGATE_5M", Fin(500, 0)>>) @@
    (<<"2.3", "4.2">> :> <<"SEGREGATE_5M", Fin(500, 0)>>) @@
    (<<"2.3", "4.3">> :> <<"SEGREGATE_5M", Fin(500, 0)>>) @@
    (<<"2.3", "5.1">> :> <<"SEGREGATE_3M", Fin(300, 0)>>) @@
    (<<"2.3", "5.2">> :> <<"ISOLATE", INF>>) @@
    (<<"2.3", "6">> :> <<"SEGREGATE_3M", Fin(300, 0)>>) @@
    (<<"2.3", "8">> :> <<"SEGREGATE_5M", Fin(500, 0)>>) @@
    (<<"3", "3">> :> <<"OK_TOGETHER", Fin(0, 0)>>) @@
    (<<"3", "4.1">> :> <<"SEGREGATE_3M", Fin(300, 0)>>) @@
    (<<"3", "4.2">> :> <<"SEGREGATE_5M", Fin(500, 0)>>) @@
    (<<"3", "4.3">> :> <<"SEGREGATE_5M", Fin(500, 0)>>) @@
    (<<"3", "5.1">> :> <<"SEGREGATE_5M", Fin(500, 0)>>) @@
    (<<"3", "5.2">> :> <<"ISOLATE", INF>>) @@
    (<<"3", "6">> :> <<"SEGREGATE_3M", Fin(300, 0)>>) @@
    (<<"3", "8">> :> <<"SEGREGATE_3M", Fin(300, 0)>>) @@
    (<<"4.1", "4.1">> :> <<"OK_TOGETHER", Fin(0, 0)>>) @@
    (<<"4.1", "4.2">> :> <<"SEGREGATE_3M", Fin(300, 0)>>) @@
    (<<"4.1", "4.3">> :> <<"SEGREGATE_5M", Fin(500, 0)>>) @@
    (<<"4.1", "5.1">> :> <<"SEGREGATE_3M", Fin(300, 0)>>) @@
    (<<"4.1", "5.2">> :> <<"ISOLATE", INF>>) @@
    (<<"4.1", "6">> :> <<"SEGREGATE_3M", Fin(300, 0)>>) @@
    (<<"4.1", "8">> :> <<"MAY_NOT_COMPATIBLE", Fin(300, 0)>>) @@
    (<<"4.2", "4.2">> :> <<"OK_TOGETHER", Fin(0, 0)>>) @@
    (<<"4.2", "4.3">> :> <<"SEGREGATE_5M", Fin(500, 0)>>) @@
    (<<"4.2", "5.1">> :> <<"SEGREGATE_5M", Fin(500, 0)>>) @@
    (<<"4.2", "5.2">> :> <<"ISOLATE", INF>>) @@
    (<<"4.2", "6">> :> <<"SEGREGATE_3M", Fin(300, 0)>>) @@
    (<<"4.2", "8">> :> <<"SEGREGATE_3M", Fin(300, 0)>>) @@
    (<<"4.3", "4.3">> :> <<"OK_TOGETHER", Fin(0, 0)>>) @@
    (<<"4.3", "5.1">> :> <<"SEGREGATE_5M", Fin(500, 0)>>) @@
    (<<"4.3", "5.2">> :> <<"ISOLATE", INF>>) @@
    (<<"4.3", "6">> :> <<"SEGREGATE_3M", Fin(300, 0)>>) @@
    (<<"4.3", "8">> :> <<"SEGREGATE_5M", Fin(500, 0)>>) @@
    (<<"5.1", "5.1">> :> <<"MAY_NOT_COMPATIBLE", Fin(300, 0)>>) @@
    (<<"5.1", "5.2">> :> <<"ISOLATE", INF>>) @@
    (<<"5.1", "6">> :> <<"SEGREGATE_3M", Fin(300, 0)>>) @@
    (<<"5.1", "8">> :> <<"SEGREGATE_3M", Fin(300, 0)>>) @@
    (<<"5.2", "5.2">> :> <<"OK_TOGETHER", Fin(0, 0)>>) @@
    (<<"5.2", "6">> :> <<"ISOLATE", INF>>) @@
    (<<"5.2", "8">> :> <<"SEGREGATE_3M", Fin(300, 0)>>) @@
    (<<"6", "6">> :> <<"OK_TOGETHER", Fin(0, 0)>>) @@
    (<<"6", "8">> :> <<"SEGREGATE_5M", Fin(500, 0)>>) @@
    (<<"8", "8">> :> <<"MAY_NOT_COMPATIBLE", Fin(300, 0)>>)

\* mutation of Compatibility: unknown pairs default to SEGREGATE_5M
CompatibilityDefault5M(pair_key) ==
    IF pair_key \in DOMAIN compatibility_matrix
    THEN compatibility_matrix[pair_key]
    ELSE <<"SEGREGATE_5M", Fin(500, 0)>>

\* compatibility_matrix.get(pair_key), with the default for unknown pairs
Compatibility(pair_key) ==
    IF pair_key \in DOMAIN compatibility_matrix
    THEN compatibility_matrix[pair_key]
    ELSE <<"SEGREGATE_3M", Fin(300, 0)>>

Verdict(status, is_isolated, min_required_distance) ==
    [status |-> status, is_isolated |-> is_isolated,
     min_required_distance |-> min_required_distance]

\* mutation of DistanceBands: the two lower bands change places
DistanceBandsInverted(distance, min_distance) ==
    IF FGe(distance, min_distance) THEN Verdict("safe", FALSE, min_distance)
    ELSE IF FGe(distance, FMul06(min_distance))
         THEN Verdict("danger", FALSE, min_distance)
         ELSE Verdict("caution", FALSE, min_distance)

\* The three distance bands against min_distance
DistanceBands(distance, min_distance) ==
    IF FGe(distance, min_distance) THEN Verdict("safe", FALSE, min_distance)
    ELSE IF FGe(distance, FMul06(min_distance))
         THEN Verdict("caution", FALSE, min_distance)
         ELSE Verdict("danger", FALSE, min_distance)

\* mutation of ProcessAction: ISOLATE does not raise the is_isolated flag
ProcessActionNoFlag(action, table_min, class_code_a, class_code_b, distance) ==
    CASE action = "ISOLATE" -> Verdict("danger", FALSE, table_min)
      [] action = "OK_TOGETHER" -> Verdict("safe", FALSE, Fin(0, 0))
      [] action = "MAY_NOT_COMPATIBLE" ->
            IF class_code_a = class_code_b
            THEN Verdict("safe", FALSE, Fin(0, 0))
            ELSE DistanceBands(distance, Fin(300, 0))
      [] action = "SEGREGATE_3M" -> DistanceBands(distance, Fin(300, 0))
      [] action = "SEGREGATE_5M" -> DistanceBands(distance, Fin(500, 0))
      [] OTHER -> DistanceBands(distance, table_min)

\* mutation of ProcessAction: ISOLATE is reported as caution
ProcessActionIsolateCaution(action, table_min, class_code_a, class_code_b, distance) ==
    CASE action = "ISOLATE" -> Verdict("caution", TRUE, table_min)
      [] action = "OK_TOGETHER" -> Verdict("safe", FALSE, Fin(0, 0))
      [] action = "MAY_NOT_COMPATIBLE" ->
            IF class_code_a = class_code_b
            THEN Verdict("safe", FALSE, Fin(0, 0))
            ELSE DistanceBands(distance, Fin(300, 0))
      [] action = "SEGREGATE_3M" -> DistanceBands(distance, Fin(300, 0))
      [] action = "SEGREGATE_5M" -> DistanceBands(distance, Fin(500, 0))
      [] OTHER -> DistanceBands(distance, table_min)

\* mutation of ProcessAction: OK_TOGETHER is handled as SEGREGATE_3M
ProcessActionOkSegregated(action, table_min, class_code_a, class_code_b, distance) ==
    CASE action = "ISOLATE" -> Verdict("danger", TRUE, table_min)
      [] action = "OK_TOGETHER" -> DistanceBands(distance, Fin(300, 0))
      [] action = "MAY_NOT_COMPATIBLE" ->
            IF class_code_a = class_code_b
            THEN Verdict("safe", FALSE, Fin(0, 0))
            ELSE DistanceBands(distance, Fin(300, 0))
      [] action = "SEGREGATE_3M" -> DistanceBands(distance, Fin(300, 0))
      [] action = "SEGREGATE_5M" -> DistanceBands(distance, Fin(500, 0))
      [] OTHER -> DistanceBands(distance, table_min)

\* The branch on the table action
ProcessAction(action, table_min, class_code_a, class_code_b, distance) ==
    CASE action = "ISOLATE" -> Verdict("danger", TRUE, table_min)
      [] action = "OK_TOGETHER" -> Verdict("safe", FALSE, Fin(0, 0))
      [] action = "MAY_NOT_COMPATIBLE" ->
            IF class_code_a = class_code_b
            THEN Verdict("safe", FALSE, Fin(0, 0))
            ELSE DistanceBands(distance, Fin(300, 0))
      [] action = "SEGREGATE_3M" -> DistanceBands(distance, Fin(300, 0))
      [] action = "SEGREGATE_5M" -> DistanceBands(distance, Fin(500, 0))
      [] OTHER -> DistanceBands(distance, table_min)

calculate_hazard_status(class_a, class_b, distance) ==
    LET class_code_a == ClassCode(class_a)
        class_code_b == ClassCode(class_b)
        compatibility == Compatibility(SortedPair(class_code_a, class_code_b))
    IN  ProcessAction(compatibility[1], compatibility[2],
                      class_code_a, class_code_b, distance)

(***************************************************************************)
(* Request bodies.  Text is a sequence of one-character strings; None is   *)
(* the absent Optional[str], and stands for a field the handler never read.*)
(***************************************************************************)
None == <<"<None>">>

Rep(ch, n) == [i \in 1..n |-> ch]

RECURSIVE LStrip(_)
LStrip(s) == IF s # <<>> /\ Head(s) = " " THEN LStrip(Tail(s)) ELSE s

RECURSIVE RStrip(_)
RStrip(s) ==
    IF s # <<>> /\ s[Len(s)] = " " THEN RStrip(SubSeq(s, 1, Len(s) - 1)) ELSE s

\* str.strip()
Strip(s) == RStrip(LStrip(s))

\* Python truthiness of an Optional[str]
Truthy(s) == s # None /\ s # <<>>

(***************************************************************************)
(* Bounds of the model                                                     *)
(***************************************************************************)
\* values the containers.id sequence hands out
MaxContainers == 1

\* longest hazard_pairs list of a submission
MaxPairs == 1

\* rework requests accepted per container
MaxRework == 1

\* rows of deletion_requests
MaxRequests == 2

(***************************************************************************)
(* Reference data: the users and hazard_categories tables                  *)
(***************************************************************************)
users ==
    ("alice" :> [role |-> "user"]) @@
    ("bob" :> [role |-> "viewer"]) @@
    ("carol" :> [role |-> "admin"]) @@
    ("dave" :> [role |-> "hod"])

\* a request without a valid bearer token
Anonymous == "anonymous"

Callers == DOMAIN users \cup {Anonymous}

\* hazard_categories.id -> name; the name is what the handlers pass to the
\* engine.  Category 12 has a name name_to_class does not know.
hazard_categories ==
    (1 :> "Flammable Gas") @@
    (2 :> "Non-Flammable Non-Toxic Gas") @@
    (3 :> "Toxic Gas") @@
    (4 :> "Flammable Liquid") @@
    (5 :> "Flammable Solid") @@
    (6 :> "Spontaneously Combustible") @@
    (7 :> "Dangerous When Wet") @@
    (8 :> "Oxidizing Agent") @@
    (9 :> "Organic Peroxide") @@
    (10 :> "Toxic") @@
    (11 :> "Corrosive") @@
    (12 :> "Explosive")

\* SELECT name FROM hazard_categories WHERE id = $1 returns a row
CategoryFound(id) == id \in DOMAIN hazard_categories

(***************************************************************************)
(* Inputs                                                                  *)
(***************************************************************************)
\* distances of the direct engine calls, in hundredths of a metre
DistanceGrid == {-100, 0, 1, 100, 179, 180, 181, 200, 299, 300, 301, 499, 500, 501, 600}

\* every grid distance, the double just below 1.8, and float('inf')
Distances == {Fin(h, 0) : h \in DistanceGrid} \cup {Fin(180, -1), INF}

PairData(a, b, d) ==
    [hazard_category_a_id |-> a, hazard_category_b_id |-> b, distance |-> d]

\* HazardPairData of the submissions: a pair of categories for every table
\* action, a category the engine has no class for (12), an id with no
\* hazard_categories row (99), and a distance below zero
HazardPairData ==
    { PairData(1, 9, Fin(200, 0)), PairData(1, 2, Fin(200, 0)),
      PairData(1, 3, Fin(200, 0)), PairData(1, 3, Fin(500, 0)),
      PairData(4, 1, Fin(200, 0)), PairData(5, 11, Fin(200, 0)),
      PairData(3, 3, Fin(200, 0)), PairData(12, 1, Fin(200, 0)),
      PairData(1, 99, Fin(200, 0)), PairData(4, 1, Fin(-100, 0)) }

SeqsUpTo(S, n) == UNION {[1..k -> S] : k \in 0..n}

\* ContainerSubmission, the fields the handlers read: every hazard_pairs list
\* for one submitter, with two hazards selected when pairs are declared and one
\* when none is
ContainerSubmission ==
    {[submitted_by |-> "alice",
      selected_hazards |-> IF pairs = <<>> THEN <<3>> ELSE <<1, 9>>,
      hazard_pairs |-> pairs] : pairs \in SeqsUpTo(HazardPairData, MaxPairs)}

\* ContainerSubmission of the workflow: one hazard_pairs list for every submitter
WorkflowSubmission ==
    [submitted_by : {"alice", "bob"},
     selected_hazards : {<<1, 9>>},
     hazard_pairs : {<<PairData(1, 9, Fin(200, 0))>>}]

\* comment texts: empty, blank, 9 characters inside blanks (11 before
\* strip()), and 10 characters inside blanks
Comments ==
    { <<>>, Rep(" ", 3), <<" ">> \o Rep("x", 9) \o <<" ">>,
      <<" ">> \o Rep("x", 10) \o <<" ">> }

\* ReworkRequest.rework_reason texts: empty, and 10 characters inside blanks
ReworkReasons ==
    { <<>>, <<" ">> \o Rep("x", 10) \o <<" ">> }

\* DeletionRequest.reason texts: empty, blank, 19 characters inside blanks
\* and 20 characters inside blanks
DeletionReasons ==
    { <<>>, Rep(" ", 3), <<" ">> \o Rep("x", 19) \o <<" ">>,
      <<" ">> \o Rep("x", 20) \o <<" ">> }

\* comment texts of the reviews of a deletion request: 9 and 10 characters
\* inside blanks
ReviewComments ==
    { <<" ">> \o Rep("x", 9) \o <<" ">>, <<" ">> \o Rep("x", 10) \o <<" ">> }

\* AdminReviewRequest.recommendation is any str
Recommendations == {"approve", "reject", "defer"}

\* HODDecisionRequest.decision is any str
Decisions == {"approved", "rejected", "pending"}

\* photo_type is any str
PhotoTypes == {"front", "top"}

\* ApprovalRequest.status is any str
ApprovalStatuses == {"approved", "rejected", "archived"}

(***************************************************************************)
(* State                                                                   *)
(***************************************************************************)
VARIABLES
    class_a, class_b, distance,  \* arguments of a direct engine call
    result, result_swapped,      \* its result, and the result with a and b swapped
    containers,                  \* containers table: id -> row
    container_hazards,           \* container_hazards rows of each container, in insertion order
    hazard_pairs,                \* hazard_pairs rows of each container, in insertion order
    next_id,                     \* next value of the containers.id sequence
    container_attachments,       \* container_attachments rows: <<container id, photo_type>>
    deletion_requests,           \* deletion_requests table: the row of id i at position i
    verification_codes,          \* Redis: the e-mail of a key verification_code:{email} -> code
    inflight,                    \* requests between their SELECT and their UPDATE
    last                         \* the latest request and its response

engine_vars == <<class_a, class_b, distance, result, result_swapped>>

\* the tables the container workflow never writes
deletion_vars == <<container_attachments, deletion_requests>>

db_vars == <<containers, container_hazards, hazard_pairs, next_id,
             container_attachments, deletion_requests>>

vars == <<class_a, class_b, distance, result, result_swapped,
          containers, container_hazards, hazard_pairs, next_id,
          container_attachments, deletion_requests, verification_codes,
          inflight, last>>

NoVerdict == Verdict("none", FALSE, NULL)

\* a request (operation, caller, container or deletion request id, comment
\* text, selected_hazards, hazard_pairs, recommendation or decision), its
\* response (HTTP status code, the value the detail message interpolates, the
\* JSON body) and the messages it handed to the SMTP server
Response(op, caller, cid, comment, code, detail, body) ==
    [op |-> op, caller |-> caller, cid |-> cid, comment |-> comment,
     hazards |-> <<>>, pairs |-> <<>>, choice |-> "", code |-> code,
     detail |-> detail, body |-> body, mail |-> <<>>]

\* the response to a request whose hazard_pairs list the handler read
PairsResponse(op, caller, cid, pairs, code) ==
    [Response(op, caller, cid, None, code, "", NoVerdict) EXCEPT !.pairs = pairs]

\* the response to a request whose selected_hazards and hazard_pairs the
\* handler read
SubmissionResponse(op, caller, cid, submission, code) ==
    [PairsResponse(op, caller, cid, submission.hazard_pairs, code)
        EXCEPT !.hazards = submission.selected_hazards]

NoRequest == Response("none", Anonymous, 0, None, 0, "", NoVerdict)

\* column default of containers.rework_count (<<>> is NULL)
rework_count_default == <<0>>

(***************************************************************************)
(* Notifications.  The environment of a request is HOD_EMAILS as the       *)
(* deployment configures it and, for the n-th message the request hands to *)
(* the SMTP server, whether the server takes it.  A user's e-mail address  *)
(* is written as the user's name.                                          *)
(***************************************************************************)
SAFETY_TEAM_EMAIL == "safety_team"

\* the recipients argument of the one message send_admin_review_to_hod sends
HodRecipients == "HOD_EMAILS"

\* os.getenv("HOD_EMAILS", "").split(","): unset, or one address
HodEmailSettings == {<<"">>, <<"dave">>}

\* every environment with HOD_EMAILS among the settings
Environments(settings) ==
    UNION {{[HOD_EMAILS |-> h, smtp |-> s] : s \in [1..(Len(h) + 1) -> BOOLEAN]}
              : h \in settings}

\* the environment in which every message is delivered
Delivering == [HOD_EMAILS |-> <<"dave">>, smtp |-> <<TRUE, TRUE>>]

\* the messages sent to the recipients, in order, and what became of each
Deliver(env, recipients) ==
    [i \in DOMAIN recipients |-> [to |-> recipients[i], delivered |-> env.smtp[i]]]

Delivered(mail) == \A i \in DOMAIN mail : mail[i].delivered

\* mutation of CodeAfterSend: a sender raises what smtplib raised
CodeAfterSendRaising(mail) == IF Delivered(mail) THEN 200 ELSE 500

\* "except Exception" of the senders: the failure is logged and not raised,
\* and the handler returns its body
CodeAfterSend(mail) == 200

\* the response of a handler that sent the messages before it returned
Notified(response, mail) ==
    [response EXCEPT !.mail = mail, !.code = CodeAfterSend(mail)]

\* SELECT ... FROM users WHERE name = $1 (or JOIN users) finds the submitter
SubmitterFound(submitted_by) == submitted_by \in DOMAIN users

\* admin_review_container: a message to every address of HOD_EMAILS that
\* is an active user's, when HOD_EMAILS[0] is set, then one to the submitter
AdminReviewRecipients(env, submitted_by) ==
    (IF env.HOD_EMAILS # <<>> /\ env.HOD_EMAILS[1] # ""
     THEN SelectSeq(env.HOD_EMAILS, LAMBDA e : e \in DOMAIN users)
     ELSE <<>>)
    \o (IF SubmitterFound(submitted_by) THEN <<submitted_by>> ELSE <<>>)

\* approve_container and request_rework: one message to the submitter, if found
SubmitterRecipients(submitted_by) ==
    IF SubmitterFound(submitted_by) THEN <<submitted_by>> ELSE <<>>

(***************************************************************************)
(* Storing and returning an engine result                                  *)
(***************************************************************************)
\* mutation of StoredMin: float('inf') is stored as it is
StoredMinRaw(min_required_distance) == min_required_distance

\* None if min_required_distance == float('inf') else min_required_distance
StoredMin(min_required_distance) ==
    IF FEq(min_required_distance, INF) THEN NULL ELSE min_required_distance

\* the engine's verdict for two hazard_categories rows, as it is stored or returned
StoredVerdict(a_id, b_id, d) ==
    LET v == calculate_hazard_status(hazard_categories[a_id], hazard_categories[b_id], d)
    IN  Verdict(v.status, v.is_isolated, StoredMin(v.min_required_distance))

\* mutation of PairRow: the row does not carry the is_isolated flag
PairRowNoFlag(pair_data) ==
    LET v == StoredVerdict(pair_data.hazard_category_a_id,
                           pair_data.hazard_category_b_id, pair_data.distance)
    IN  [hazard_category_a_id |-> pair_data.hazard_category_a_id,
         hazard_category_b_id |-> pair_data.hazard_category_b_id,
         distance |-> pair_data.distance,
         is_isolated |-> FALSE,
         min_required_distance |-> v.min_required_distance,
         status |-> v.status]

\* the hazard_pairs row inserted for one HazardPairData
PairRow(pair_data) ==
    LET v == StoredVerdict(pair_data.hazard_category_a_id,
                           pair_data.hazard_category_b_id, pair_data.distance)
    IN  [hazard_category_a_id |-> pair_data.hazard_category_a_id,
         hazard_category_b_id |-> pair_data.hazard_category_b_id,
         distance |-> pair_data.distance,
         is_isolated |-> v.is_isolated,
         min_required_distance |-> v.min_required_distance,
         status |-> v.status]

\* the loop over hazard_pairs raises HTTPException(400) at the first pair with
\* an id that has no hazard_categories row
PairsValid(pairs) ==
    \A i \in DOMAIN pairs :
        /\ CategoryFound(pairs[i].hazard_category_a_id)
        /\ CategoryFound(pairs[i].hazard_category_b_id)

\* the rows the loop inserts, one per HazardPairData, in order
PairRows(pairs) == [i \in DOMAIN pairs |-> PairRow(pairs[i])]

\* the pairs the loop inserts before it raises, or all of them
InsertedPairs(pairs) ==
    IF PairsValid(pairs) THEN pairs
    ELSE SubSeq(pairs, 1,
                (CHOOSE i \in DOMAIN pairs :
                    /\ ~PairsValid(<<pairs[i]>>)
                    /\ PairsValid(SubSeq(pairs, 1, i - 1))) - 1)

\* mutation of Transaction: the writes made before the exception stay
TransactionNoRollback(committed, before, written) == written

\* "async with conn.transaction()": a table after the block, which commits
\* what was written or, left by an exception, rolls it back
Transaction(committed, before, written) == IF committed THEN written ELSE before

\* mutation of ReplaceRows: the old rows are not deleted
ReplaceRowsKeeping(old, new) == old \o new

\* DELETE FROM ... WHERE container_id = $1, then the INSERTs
ReplaceRows(old, new) == new

\* mutation of PreviewMin: float('inf') is returned as it is
PreviewMinRaw(min_required_distance) == min_required_distance

\* min_required_distance if min_required_distance != float('inf') else None
PreviewMin(min_required_distance) ==
    IF ~FEq(min_required_distance, INF) THEN min_required_distance ELSE NULL

\* the JSON body of a preview
PreviewBody(a_id, b_id, d) ==
    LET v == calculate_hazard_status(hazard_categories[a_id], hazard_categories[b_id], d)
    IN  Verdict(v.status, v.is_isolated, PreviewMin(v.min_required_distance))

(***************************************************************************)
(* Direct engine calls                                                     *)
(***************************************************************************)
Evaluate ==
    /\ result = NoVerdict
    /\ result' = calculate_hazard_status(class_a, class_b, distance)
    /\ UNCHANGED <<class_a, class_b, distance, result_swapped, verification_codes,
                   db_vars, inflight, last>>

EvaluateSwapped ==
    /\ result_swapped = NoVerdict
    /\ result_swapped' = calculate_hazard_status(class_b, class_a, distance)
    /\ UNCHANGED <<class_a, class_b, distance, result, verification_codes,
                   db_vars, inflight, last>>

(***************************************************************************)
(* Handlers.  Each is the whole request: its checks in the order of the    *)
(* code, its writes, and the response.                                     *)
(***************************************************************************)
Role(caller) == users[caller].role

\* an HTTP error response: nothing is written
Refuse(op, caller, cid, comment, code, detail) ==
    /\ last' = Response(op, caller, cid, comment, code, detail, NoVerdict)
    /\ UNCHANGED <<engine_vars, verification_codes, db_vars, inflight>>

\* POST /preview-status/
get_preview_status(hazard_a_id, hazard_b_id, d) ==
    /\ IF ~CategoryFound(hazard_a_id) \/ ~CategoryFound(hazard_b_id)
       THEN \* HTTPException(400), caught by "except Exception" and raised as 500
            last' = PairsResponse("preview", Anonymous, 0,
                                  <<PairData(hazard_a_id, hazard_b_id, d)>>, 500)
       ELSE last' = [PairsResponse("preview", Anonymous, 0,
                                   <<PairData(hazard_a_id, hazard_b_id, d)>>, 200)
                        EXCEPT !.body = PreviewBody(hazard_a_id, hazard_b_id, d)]
    /\ UNCHANGED <<engine_vars, verification_codes, db_vars, inflight>>

\* POST /containers/
submit_container(env, caller, submission) ==
    IF caller = Anonymous
    THEN \* 401 from get_current_user_from_token, raised as 500
         Refuse("submit", caller, 0, None, 500, "")
    ELSE LET \* the HTTPException(400) of the loop leaves the transaction
             committed == PairsValid(submission.hazard_pairs)
             inserted == PairRows(InsertedPairs(submission.hazard_pairs))
         IN  /\ next_id' = next_id + 1  \* a rollback does not return the id
             /\ containers' = Transaction(committed, containers,
                    (next_id :> [status |-> "pending_review",
                                 submitted_by |-> submission.submitted_by,
                                 rework_count |-> rework_count_default,
                                 rework_reason |-> None])
                    @@ containers)
             /\ container_hazards' = Transaction(committed, container_hazards,
                    (next_id :> submission.selected_hazards) @@ container_hazards)
             /\ hazard_pairs' = Transaction(committed, hazard_pairs,
                    (next_id :> inserted) @@ hazard_pairs)
             /\ last' = IF committed
                        THEN Notified(SubmissionResponse("submit", caller, next_id,
                                                         submission, 200),
                                      Deliver(env, <<SAFETY_TEAM_EMAIL>>))
                        ELSE \* raised as 500
                             SubmissionResponse("submit", caller, 0, submission, 500)
             /\ UNCHANGED <<engine_vars, verification_codes, deletion_vars, inflight>>

\* UPDATE containers SET status = ... WHERE id = cid
SetStatus(cid, status) ==
    containers' = [containers EXCEPT ![cid].status = status]

\* "if not comment or comment.strip() == ''" and "len(comment.strip()) < 10"
CommentRefused(comment) ==
    \/ ~Truthy(comment)
    \/ Strip(comment) = <<>>
    \/ Len(Strip(comment)) < 10

\* mutation of Approvable: a decided container is decided again
ApprovableAgain ==
    {"pending_review", "pending", "rework_requested", "approved", "rejected"}

\* mutation of Approvable: rework_requested is not accepted
ApprovableNoRework == {"pending_review", "pending"}

\* the statuses approve_container accepts
Approvable == {"pending_review", "pending", "rework_requested"}

\* POST /containers/{container_id}/approve
approve_container(env, caller, cid, req_status, comment) ==
    IF caller = Anonymous
    THEN Refuse("approve", caller, cid, None, 401, "")
    ELSE IF Role(caller) # "hod"
    THEN Refuse("approve", caller, cid, None, 403, "")
    ELSE IF CommentRefused(comment)
    THEN Refuse("approve", caller, cid, comment, 400, "")
    ELSE IF cid \notin DOMAIN containers
    THEN Refuse("approve", caller, cid, comment, 404, "")
    ELSE IF containers[cid].status \notin Approvable
    THEN Refuse("approve", caller, cid, comment, 400, containers[cid].status)
    ELSE /\ SetStatus(cid, req_status)
         /\ last' = Notified([Response("approve", caller, cid, comment, 200, "", NoVerdict)
                                 EXCEPT !.choice = req_status],
                             Deliver(env, SubmitterRecipients(containers[cid].submitted_by)))
         /\ UNCHANGED <<engine_vars, verification_codes, container_hazards, hazard_pairs, next_id,
                      deletion_vars, inflight>>

\* mutation of NextReworkCount: the counter is not incremented
NextReworkCountKept(rework_count) ==
    IF rework_count = <<>> THEN <<0>> ELSE rework_count

\* COALESCE(rework_count, 0) + 1
NextReworkCount(rework_count) ==
    IF rework_count = <<>> THEN <<1>> ELSE <<rework_count[1] + 1>>

\* mutation of Reworkable: an admin may also act on pending
ReworkableAnyReviewer(role) == {"pending_review", "pending"}

\* the statuses request_rework accepts from a role
Reworkable(role) ==
    IF role = "admin" THEN {"pending_review"} ELSE {"pending_review", "pending"}

\* POST /containers/{container_id}/rework
request_rework(env, caller, cid, reason) ==
    IF caller = Anonymous
    THEN Refuse("rework", caller, cid, None, 401, "")
    ELSE IF Role(caller) \notin {"admin", "hod"}
    THEN Refuse("rework", caller, cid, None, 403, "")
    ELSE IF cid \notin DOMAIN containers
    THEN Refuse("rework", caller, cid, None, 404, "")
    ELSE IF containers[cid].status \notin Reworkable(Role(caller))
    THEN Refuse("rework", caller, cid, None, 400, "")
    ELSE /\ containers' = [containers EXCEPT
                ![cid].status = "rework_requested",
                ![cid].rework_reason = Strip(reason),
                ![cid].rework_count = NextReworkCount(containers[cid].rework_count)]
         /\ \* the notification reads container['rework_count'] + 1 from the row
            \* fetched before the update: a TypeError on NULL, raised as 500
            IF SubmitterFound(containers[cid].submitted_by)
               /\ containers[cid].rework_count = <<>>
            THEN last' = Response("rework", caller, cid, reason, 500, "", NoVerdict)
            ELSE last' = Notified(Response("rework", caller, cid, reason, 200, "", NoVerdict),
                                  Deliver(env, SubmitterRecipients(containers[cid].submitted_by)))
         /\ UNCHANGED <<engine_vars, verification_codes, container_hazards, hazard_pairs, next_id,
                      deletion_vars, inflight>>

\* mutation of AdminReviewable: a pending container is reviewed again
AdminReviewableAgain == {"pending_review", "pending"}

\* the status admin_review_container accepts
AdminReviewable == {"pending_review"}

\* POST /containers/{container_id}/admin-review
admin_review_container(env, caller, cid, comment) ==
    IF caller = Anonymous
    THEN Refuse("admin_review", caller, cid, None, 401, "")
    ELSE IF Role(caller) # "admin"
    THEN Refuse("admin_review", caller, cid, None, 403, "")
    ELSE IF CommentRefused(comment)
    THEN Refuse("admin_review", caller, cid, comment, 400, "")
    ELSE IF cid \notin DOMAIN containers
    THEN Refuse("admin_review", caller, cid, comment, 404, "")
    ELSE IF containers[cid].status \notin AdminReviewable
    THEN Refuse("admin_review", caller, cid, comment, 400, containers[cid].status)
    ELSE /\ SetStatus(cid, "pending")
         /\ last' = Notified(Response("admin_review", caller, cid, comment, 200, "", NoVerdict),
                             Deliver(env, AdminReviewRecipients(env, containers[cid].submitted_by)))
         /\ UNCHANGED <<engine_vars, verification_codes, container_hazards, hazard_pairs, next_id,
                      deletion_vars, inflight>>

\* mutation of IsSubmitter: a reviewer may update any container
IsSubmitterOrReviewer(caller, cid) ==
    containers[cid].submitted_by = caller \/ Role(caller) \in {"admin", "hod"}

\* existing['submitted_by'] == user['name']
IsSubmitter(caller, cid) == containers[cid].submitted_by = caller

\* PUT /containers/{container_id}/update
update_container(env, caller, cid, container_data) ==
    IF caller = Anonymous
    THEN Refuse("update", caller, cid, None, 401, "")
    ELSE IF cid \notin DOMAIN containers
    THEN Refuse("update", caller, cid, None, 404, "")
    ELSE IF ~IsSubmitter(caller, cid)
    THEN Refuse("update", caller, cid, None, 403, "")
    ELSE IF containers[cid].status # "rework_requested"
    THEN Refuse("update", caller, cid, None, 400, "")
    ELSE LET \* the HTTPException(400) of the loop leaves the transaction
             committed == PairsValid(container_data.hazard_pairs)
             inserted == PairRows(InsertedPairs(container_data.hazard_pairs))
         IN  /\ containers' = Transaction(committed, containers,
                    [containers EXCEPT ![cid].status = "pending_review",
                                       ![cid].rework_reason = None])
             /\ container_hazards' = Transaction(committed, container_hazards,
                    [container_hazards EXCEPT
                        ![cid] = ReplaceRows(@, container_data.selected_hazards)])
             /\ hazard_pairs' = Transaction(committed, hazard_pairs,
                    [hazard_pairs EXCEPT ![cid] = ReplaceRows(@, inserted)])
             /\ last' = IF committed
                        THEN Notified(SubmissionResponse("update", caller, cid,
                                                         container_data, 200),
                                      Deliver(env, <<SAFETY_TEAM_EMAIL>>))
                        ELSE \* raised as 500
                             SubmissionResponse("update", caller, cid, container_data, 500)
             /\ UNCHANGED <<engine_vars, verification_codes, next_id, deletion_vars, inflight>>

(***************************************************************************)
(* Attachments and deletion requests                                       *)
(***************************************************************************)
\* column defaults of deletion_requests.status and .admin_reviewed
deletion_status_default == "pending"

admin_reviewed_default == FALSE

\* a function without the key
Without(f, key) == [k \in DOMAIN f \ {key} |-> f[k]]

\* DELETE FROM containers WHERE id = cid: the foreign keys of
\* container_hazards, hazard_pairs and container_attachments cascade;
\* deletion_requests rows refer to the container by id only and stay
DeleteContainerRow(cid) ==
    /\ containers' = Without(containers, cid)
    /\ container_hazards' = Without(container_hazards, cid)
    /\ hazard_pairs' = Without(hazard_pairs, cid)
    /\ container_attachments' = {a \in container_attachments : a[1] # cid}

\* POST /containers/{container_id}/attachments
upload_attachment(caller, cid, photo_type) ==
    IF caller = Anonymous
    THEN Refuse("upload", caller, cid, None, 401, "")
    ELSE IF photo_type \notin {"front", "inside", "side"}
    THEN Refuse("upload", caller, cid, None, 400, "")
    ELSE IF cid \notin DOMAIN containers
    THEN Refuse("upload", caller, cid, None, 404, "")
    ELSE IF Role(caller) \notin {"hod", "admin"} /\ containers[cid].submitted_by # caller
    THEN Refuse("upload", caller, cid, None, 403, "")
    ELSE /\ container_attachments' = container_attachments \cup {<<cid, photo_type>>}
         /\ last' = Response("upload", caller, cid, None, 200, "", NoVerdict)
         /\ UNCHANGED <<engine_vars, verification_codes, containers, container_hazards, hazard_pairs,
                        next_id, deletion_requests, inflight>>

\* mutation of MayDelete: an admin may delete as well
MayDeleteReviewer(role) == role \in {"admin", "hod"}

\* current_user['role'] != 'hod' raises
MayDelete(role) == role = "hod"

\* DELETE /containers/{container_id}: every error is raised as 500
delete_container(env, caller, cid, deletion_reason) ==
    IF \/ caller = Anonymous
       \/ ~MayDelete(Role(caller))
    THEN Refuse("delete", caller, cid, None, 500, "")
    ELSE IF \/ ~Truthy(deletion_reason)
            \/ Len(Strip(deletion_reason)) < 10
            \/ cid \notin DOMAIN containers
            \/ ~SubmitterFound(containers[cid].submitted_by)  \* JOIN users finds no row
    THEN Refuse("delete", caller, cid, deletion_reason, 500, "")
    ELSE /\ DeleteContainerRow(cid)
         /\ last' = Notified(Response("delete", caller, cid, deletion_reason, 200, "",
                                      NoVerdict),
                             Deliver(env, <<containers[cid].submitted_by>>))
         /\ UNCHANGED <<engine_vars, verification_codes, next_id, deletion_requests, inflight>>

\* mutation of ReasonRefused: the reason is held to the 10 characters of a comment
ReasonRefusedAsComment(reason) ==
    \/ ~Truthy(reason)
    \/ Strip(reason) = <<>>
    \/ Len(Strip(reason)) < 10

\* "if not reason or reason.strip() == ''" and "len(reason.strip()) < 20"
ReasonRefused(reason) ==
    \/ ~Truthy(reason)
    \/ Strip(reason) = <<>>
    \/ Len(Strip(reason)) < 20

\* SELECT * FROM deletion_requests WHERE container_id = $1 AND status = 'pending'
HasPendingRequest(cid) ==
    \E i \in DOMAIN deletion_requests :
        /\ deletion_requests[i].container_id = cid
        /\ deletion_requests[i].status = "pending"

\* POST /containers/{container_id}/request-deletion
request_container_deletion(env, caller, cid, reason) ==
    IF caller = Anonymous
    THEN Refuse("request_deletion", caller, cid, None, 401, "")
    ELSE IF Role(caller) # "user"
    THEN Refuse("request_deletion", caller, cid, None, 403, "")
    ELSE IF ReasonRefused(reason)
    THEN Refuse("request_deletion", caller, cid, reason, 400, "")
    ELSE IF cid \notin DOMAIN containers
    THEN Refuse("request_deletion", caller, cid, reason, 404, "")
    ELSE IF containers[cid].submitted_by # caller
    THEN Refuse("request_deletion", caller, cid, reason, 403, "")
    ELSE IF HasPendingRequest(cid)
    THEN Refuse("request_deletion", caller, cid, reason, 400, "pending")
    ELSE /\ deletion_requests' = Append(deletion_requests,
                [container_id |-> cid, requested_by |-> caller,
                 status |-> deletion_status_default,
                 admin_reviewed |-> admin_reviewed_default])
         /\ last' = Notified(Response("request_deletion", caller, cid, reason, 200, "",
                                      NoVerdict),
                             Deliver(env, <<SAFETY_TEAM_EMAIL>>))
         /\ UNCHANGED <<engine_vars, verification_codes, containers, container_hazards, hazard_pairs,
                        next_id, container_attachments, inflight>>

\* the response to a request on a deletion request
ReviewResponse(op, caller, rid, comment, choice, code) ==
    [Response(op, caller, rid, comment, code, "", NoVerdict) EXCEPT !.choice = choice]

\* an HTTP error response to a request on a deletion request
RefuseReview(op, caller, rid, comment, choice, code) ==
    /\ last' = ReviewResponse(op, caller, rid, comment, choice, code)
    /\ UNCHANGED <<engine_vars, verification_codes, db_vars, inflight>>

\* mutation of AlreadyReviewed: the admin_reviewed flag is not looked at
AlreadyReviewedIgnored(row) == FALSE

\* "if deletion_req['admin_reviewed']" and "if deletion_req['status'] != 'pending'"
AlreadyReviewed(row) == row.admin_reviewed \/ row.status # "pending"

\* POST /deletion-requests/{request_id}/admin-review
admin_review_deletion(env, caller, rid, comment, recommendation) ==
    IF caller = Anonymous
    THEN RefuseReview("admin_review_deletion", caller, rid, None, "", 401)
    ELSE IF Role(caller) # "admin"
    THEN RefuseReview("admin_review_deletion", caller, rid, None, "", 403)
    ELSE IF CommentRefused(comment)
    THEN RefuseReview("admin_review_deletion", caller, rid, comment, "", 400)
    ELSE IF recommendation \notin {"approve", "reject"}
    THEN RefuseReview("admin_review_deletion", caller, rid, comment, recommendation, 400)
    ELSE IF rid \notin DOMAIN deletion_requests
    THEN RefuseReview("admin_review_deletion", caller, rid, comment, recommendation, 404)
    ELSE IF AlreadyReviewed(deletion_requests[rid])
    THEN RefuseReview("admin_review_deletion", caller, rid, comment, recommendation, 400)
    ELSE /\ deletion_requests' = [deletion_requests EXCEPT
                ![rid].admin_reviewed = TRUE,
                ![rid].status = "admin_reviewed"]
         /\ \* the notification reads container['container'] from a SELECT made
            \* after the UPDATE: a TypeError if the container is gone, raised as 500
            last' = IF deletion_requests[rid].container_id \in DOMAIN containers
                    THEN Notified(ReviewResponse("admin_review_deletion", caller, rid,
                                                 comment, recommendation, 200),
                                  Deliver(env, <<HodRecipients>>))
                    ELSE ReviewResponse("admin_review_deletion", caller, rid, comment,
                                        recommendation, 500)
         /\ UNCHANGED <<engine_vars, verification_codes, containers, container_hazards, hazard_pairs,
                        next_id, container_attachments, inflight>>

\* mutation of Decidable: a request still pending is decided
DecidableUnreviewed(row) == row.status \in {"pending", "admin_reviewed"}

\* mutation of Decidable: the flag is not looked at, only that the request
\* is not decided yet
DecidableUnflagged(row) == row.status \notin {"approved", "rejected"}

\* mutation of Decidable: the status is not looked at, only the flag
DecidableAgain(row) == row.admin_reviewed

\* "deletion_req['status'] != 'admin_reviewed'" and "not deletion_req['admin_reviewed']"
Decidable(row) == row.status = "admin_reviewed" /\ row.admin_reviewed

\* mutation of DeletesContainer: an approval does not delete
DeletesContainerNever(decision) == FALSE

\* mutation of DeletesContainer: every decision deletes
DeletesContainerAlways(decision) == TRUE

\* if decision.decision == 'approved'
DeletesContainer(decision) == decision = "approved"

\* POST /deletion-requests/{request_id}/hod-decision
hod_final_decision(env, caller, rid, comment, decision) ==
    IF caller = Anonymous
    THEN RefuseReview("hod_decision", caller, rid, None, "", 401)
    ELSE IF Role(caller) # "hod"
    THEN RefuseReview("hod_decision", caller, rid, None, "", 403)
    ELSE IF CommentRefused(comment)
    THEN RefuseReview("hod_decision", caller, rid, comment, "", 400)
    ELSE IF decision \notin {"approved", "rejected"}
    THEN RefuseReview("hod_decision", caller, rid, comment, decision, 400)
    ELSE IF rid \notin DOMAIN deletion_requests
    THEN RefuseReview("hod_decision", caller, rid, comment, decision, 404)
    ELSE IF ~Decidable(deletion_requests[rid])
    THEN RefuseReview("hod_decision", caller, rid, comment, decision, 400)
    ELSE /\ deletion_requests' = [deletion_requests EXCEPT ![rid].status = decision]
         /\ IF DeletesContainer(decision)
            THEN DeleteContainerRow(deletion_requests[rid].container_id)
            ELSE UNCHANGED <<containers, container_hazards, hazard_pairs,
                             container_attachments>>
         /\ last' = Notified(ReviewResponse("hod_decision", caller, rid, comment,
                                            decision, 200),
                             Deliver(env, <<deletion_requests[rid].requested_by>>))
         /\ UNCHANGED <<engine_vars, verification_codes, next_id, inflight>>

\* the caller is a user with the role
HasRole(caller, role) == caller \in DOMAIN users /\ Role(caller) = role

\* the container exists with one of the statuses
StatusIs(cid, statuses) ==
    cid \in DOMAIN containers /\ containers[cid].status \in statuses

(***************************************************************************)
(* Login.  The e-mail of a request is a text; the code is a str.           *)
(***************************************************************************)
\* users.email of the active users
user_email == ("alice" :> <<"a", "l">>) @@ ("bob" :> <<"b", "o">>)

\* AuthRequest.email is any str: an address as stored, one in capitals with
\* a blank, and one of no user
Emails == {<<"a", "l">>, <<"A", "L", " ">>, <<"b", "o">>, <<"m", "a">>}

\* str(secrets.randbelow(900000) + 100000)
Codes == {"100000", "100001"}

\* VerifyCodeRequest.code is any str
SubmittedCodes == Codes \cup {""}

\* str.lower(), on the letters of the input domain
Lower(s) ==
    [i \in DOMAIN s |-> CASE s[i] = "A" -> "a"
                          [] s[i] = "L" -> "l"
                          [] OTHER -> s[i]]

\* auth_request.email.lower().strip()
NormalEmail(email) == Strip(Lower(email))

\* SELECT ... FROM users WHERE email = $1, and the active flag
ActiveUsers(email) == {u \in DOMAIN user_email : user_email[u] = email}

\* redis_client.setex(redis_key, 300, code)
StoreCode(codes, key, code) == (key :> code) @@ Without(codes, key)

\* mutation of ConsumeCode: the key is not deleted
ConsumeCodeKept(codes, key) == codes

\* redis_client.delete(redis_key)
ConsumeCode(codes, key) == Without(codes, key)

\* the response to a login request
LoginResponse(op, email, submitted, code) ==
    [Response(op, Anonymous, 0, email, code, "", NoVerdict) EXCEPT !.choice = submitted]

RefuseLogin(op, email, submitted, code) ==
    /\ last' = LoginResponse(op, email, submitted, code)
    /\ UNCHANGED <<engine_vars, verification_codes, db_vars, inflight>>

\* POST /auth/request-code, with the code secrets.randbelow() draws
request_verification_code(env, auth_email, code) ==
    LET email == NormalEmail(auth_email)
    IN  IF ActiveUsers(email) = {}
        THEN RefuseLogin("request_code", auth_email, "", 404)
        ELSE LET mail == Deliver(env, <<CHOOSE u \in ActiveUsers(email) : TRUE>>)
             IN  /\ verification_codes' = StoreCode(verification_codes, email, code)
                 /\ \* send_verification_email raises what smtplib raised: 500
                    last' = [LoginResponse("request_code", auth_email, code,
                                           IF Delivered(mail) THEN 200 ELSE 500)
                                EXCEPT !.mail = mail]
                 /\ UNCHANGED <<engine_vars, db_vars, inflight>>

\* POST /auth/verify-code
verify_code(verify_email, submitted) ==
    LET email == NormalEmail(verify_email)
    IN  IF email \notin DOMAIN verification_codes
        THEN RefuseLogin("verify_code", verify_email, submitted, 400)
        ELSE IF submitted # verification_codes[email]
        THEN RefuseLogin("verify_code", verify_email, submitted, 400)
        ELSE IF ActiveUsers(email) = {}
        THEN RefuseLogin("verify_code", verify_email, submitted, 404)
        ELSE /\ verification_codes' = ConsumeCode(verification_codes, email)
             /\ last' = LoginResponse("verify_code", verify_email, submitted, 200)
             /\ UNCHANGED <<engine_vars, db_vars, inflight>>

\* Redis drops a key 300 seconds after setex
expire_code(email) ==
    /\ email \in DOMAIN verification_codes
    /\ verification_codes' = Without(verification_codes, email)
    /\ last' = LoginResponse("expire", email, "", 0)
    /\ UNCHANGED <<engine_vars, db_vars, inflight>>

(***************************************************************************)
(* Specifications                                                          *)
(***************************************************************************)
InitDb ==
    /\ containers = <<>>
    /\ container_hazards = <<>>
    /\ hazard_pairs = <<>>
    /\ next_id = 1
    /\ container_attachments = {}
    /\ deletion_requests = <<>>
    /\ verification_codes = <<>>
    /\ inflight = <<>>
    /\ last = NoRequest

NoEngineCall ==
    /\ class_a = "2.1"
    /\ class_b = "5.2"
    /\ distance = Fin(200, 0)
    /\ result = NoVerdict
    /\ result_swapped = NoVerdict

ContainerIds == 1..MaxContainers

\* The request bodies to try for a caller: a handler refuses a caller without
\* the role before it reads the body, so one body stands for all of them.
BodiesFor(caller, roles, bodies) ==
    IF caller # Anonymous /\ Role(caller) \in roles
    THEN bodies
    ELSE {CHOOSE b \in bodies : TRUE}

\* The bodies to try for an update: update_container reads the body only for
\* the submitter of a container in rework_requested.
UpdateBodies(caller, cid, bodies) ==
    IF /\ cid \in DOMAIN containers
       /\ containers[cid].submitted_by = caller
       /\ containers[cid].status = "rework_requested"
    THEN bodies
    ELSE {CHOOSE b \in bodies : TRUE}

\* rework_count stays within the bound
ReworkBounded(cid) ==
    cid \in DOMAIN containers =>
        NextReworkCount(containers[cid].rework_count)[1] <= MaxRework

(* Spec: the container workflow, every caller and comment, from an empty store *)
Init == NoEngineCall /\ InitDb

Submit ==
    \E caller \in Callers :
        \E submission \in BodiesFor(caller, {"user", "viewer", "admin", "hod"},
                                    WorkflowSubmission) :
            /\ next_id <= MaxContainers
            /\ submit_container(Delivering, caller, submission)

AdminReview ==
    \E caller \in Callers, cid \in ContainerIds :
        \E comment \in BodiesFor(caller, {"admin"}, Comments) :
            admin_review_container(Delivering, caller, cid, comment)

Rework ==
    \E caller \in Callers, cid \in ContainerIds :
        \E reason \in BodiesFor(caller, {"admin", "hod"}, ReworkReasons) :
            /\ ReworkBounded(cid)
            /\ request_rework(Delivering, caller, cid, reason)

Approve ==
    \E caller \in Callers, cid \in ContainerIds :
        \E comment \in BodiesFor(caller, {"hod"}, Comments \cup {None}) :
            \* approval.status is read only by the UPDATE, after every check
            \E req_status \in IF CommentRefused(comment)
                              THEN {"approved"}
                              ELSE BodiesFor(caller, {"hod"}, ApprovalStatuses) :
                approve_container(Delivering, caller, cid, req_status, comment)

Update ==
    \E caller \in Callers, cid \in ContainerIds :
        \E container_data \in UpdateBodies(caller, cid, WorkflowSubmission) :
            update_container(Delivering, caller, cid, container_data)

Next == Submit \/ AdminReview \/ Rework \/ Approve \/ Update

Spec == Init /\ [][Next]_vars

(* SpecStore: what submit, resubmit and preview store and return, for every *)
(* hazard_pairs list, with one submitter and one reviewer                   *)
SubmitStore ==
    \E caller \in {"alice", Anonymous} :
        \E submission \in BodiesFor(caller, {"user"}, ContainerSubmission) :
            /\ next_id <= MaxContainers
            /\ containers = <<>>
            /\ submit_container(Delivering, caller, submission)

ReworkStore ==
    \E cid \in ContainerIds :
        /\ ReworkBounded(cid)
        /\ request_rework(Delivering, "carol", cid, <<" ">> \o Rep("x", 10) \o <<" ">>)

UpdateStore ==
    \E caller \in {"alice", "bob"}, cid \in ContainerIds :
        \E container_data \in UpdateBodies(caller, cid, ContainerSubmission) :
            update_container(Delivering, caller, cid, container_data)

PreviewStore ==
    \E p \in HazardPairData :
        \/ get_preview_status(p.hazard_category_a_id, p.hazard_category_b_id, p.distance)
        \/ get_preview_status(p.hazard_category_b_id, p.hazard_category_a_id, p.distance)

NextStore == SubmitStore \/ ReworkStore \/ UpdateStore \/ PreviewStore

SpecStore == Init /\ [][NextStore]_vars

(* SpecEngine: direct calls of calculate_hazard_status on every input *)
InitEngine ==
    /\ class_a \in Strings
    /\ class_b \in Strings
    /\ distance \in Distances
    /\ result = NoVerdict
    /\ result_swapped = NoVerdict
    /\ InitDb

NextEngine == Evaluate \/ EvaluateSwapped

SpecEngine == InitEngine /\ [][NextEngine]_vars

(* SpecDelete: attachments, deletion requests and their reviews, and the *)
(* direct deletion, on containers submitted for alice and for bob           *)
RequestIds == 1..MaxRequests

\* The bodies to try for a review of a deletion request: the recommendation
\* or decision is read only after the comment is accepted.
ChoicesFor(caller, role, comment, choices) ==
    IF HasRole(caller, role) /\ ~CommentRefused(comment)
    THEN choices
    ELSE {CHOOSE c \in choices : TRUE}

SubmitDelete ==
    \E submission \in WorkflowSubmission :
        /\ next_id <= MaxContainers
        /\ submit_container(Delivering, "alice", submission)

Upload ==
    \E cid \in ContainerIds, photo_type \in PhotoTypes :
        upload_attachment("alice", cid, photo_type)

RequestDeletion ==
    \E caller \in Callers, cid \in ContainerIds :
        \E reason \in BodiesFor(caller, {"user"}, DeletionReasons) :
            /\ Len(deletion_requests) < MaxRequests
            /\ request_container_deletion(Delivering, caller, cid, reason)

AdminReviewDeletion ==
    \E caller \in Callers, rid \in RequestIds :
        \E comment \in BodiesFor(caller, {"admin"}, ReviewComments) :
            \E recommendation \in ChoicesFor(caller, "admin", comment, Recommendations) :
                admin_review_deletion(Delivering, caller, rid, comment, recommendation)

HodDecision ==
    \E caller \in Callers, rid \in RequestIds :
        \E comment \in BodiesFor(caller, {"hod"}, ReviewComments) :
            \E decision \in ChoicesFor(caller, "hod", comment, Decisions) :
                hod_final_decision(Delivering, caller, rid, comment, decision)

DeleteContainer ==
    \E caller \in {"carol", "dave"}, cid \in ContainerIds :
        \E deletion_reason \in {Rep("x", 9), Rep("x", 10)} :
            delete_container(Delivering, caller, cid, deletion_reason)

NextDelete ==
    \/ SubmitDelete
    \/ Upload
    \/ RequestDeletion
    \/ AdminReviewDeletion
    \/ HodDecision
    \/ DeleteContainer

SpecDelete == Init /\ [][NextDelete]_vars

(***************************************************************************)
(* SpecRace: the review handlers statement by statement.  Each handler     *)
(* reads the container with one SELECT, checks the status it read, and     *)
(* writes with a later UPDATE whose WHERE clause names the id only; no     *)
(* transaction or row lock spans the two.  Two requests run concurrently   *)
(* on a store prepared by whole requests.                                  *)
(***************************************************************************)
\* the handlers that write containers.status
ReviewOps == {"admin_review", "rework", "approve", "update"}

\* the two concurrent requests
Threads == {"t1", "t2"}

Idle ==
    [pc |-> "idle", op |-> "none", caller |-> Anonymous, cid |-> 0,
     req_status |-> "", observed |-> "", code |-> 0]

AllIdle == \A t \in DOMAIN inflight : inflight[t].pc = "idle"

\* the callers that pass the role check of a handler
Authorized(op) ==
    CASE op = "admin_review" -> {"carol"}
      [] op = "rework" -> {"carol", "dave"}
      [] op = "approve" -> {"dave"}
      [] op = "update" -> {"alice", "bob"}

\* the status check a handler makes on the row it read
Accepts(op, caller, cid) ==
    CASE op = "admin_review" -> containers[cid].status \in AdminReviewable
      [] op = "rework" -> containers[cid].status \in Reworkable(Role(caller))
      [] op = "approve" -> containers[cid].status \in Approvable
      [] op = "update" -> /\ IsSubmitter(caller, cid)
                          /\ containers[cid].status = "rework_requested"

\* SELECT ... FROM containers WHERE id = $1, and the checks on the row
SelectContainer(t, op, caller, cid, req_status) ==
    /\ inflight[t].pc = "idle"
    /\ inflight' = [inflight EXCEPT ![t] =
           IF cid \notin DOMAIN containers
           THEN [Idle EXCEPT !.pc = "done", !.op = op, !.caller = caller,
                             !.cid = cid, !.code = 404]
           ELSE [pc |-> IF Accepts(op, caller, cid) THEN "checked" ELSE "done",
                 op |-> op, caller |-> caller, cid |-> cid,
                 req_status |-> req_status,
                 observed |-> containers[cid].status,
                 code |-> IF Accepts(op, caller, cid) THEN 0 ELSE 400]]
    /\ UNCHANGED <<engine_vars, verification_codes, db_vars, last>>

\* the row a handler's UPDATE containers ... WHERE id = $n leaves
UpdatedRow(row, op, req_status) ==
    CASE op = "admin_review" -> [row EXCEPT !.status = "pending"]
      [] op = "approve" -> [row EXCEPT !.status = req_status]
      [] op = "rework" ->
            [row EXCEPT !.status = "rework_requested",
                        !.rework_reason = Rep("x", 10),
                        !.rework_count = NextReworkCount(row.rework_count)]
      [] op = "update" ->
            [row EXCEPT !.status = "pending_review", !.rework_reason = None]

\* UPDATE containers SET status = ... WHERE id = $n, and the 200 response
\* (update_container rewrites the hazards and pairs it was sent in the same
\* transaction; here they are the ones already stored)
UpdateContainer(t) ==
    /\ inflight[t].pc = "checked"
    /\ inflight[t].cid \in DOMAIN containers
    /\ containers' = [containers EXCEPT ![inflight[t].cid] =
           UpdatedRow(@, inflight[t].op, inflight[t].req_status)]
    /\ inflight' = [inflight EXCEPT ![t].pc = "done", ![t].code = 200]
    /\ UNCHANGED <<engine_vars, verification_codes, container_hazards, hazard_pairs, next_id,
                   deletion_vars, last>>

\* whole requests that prepare the store before the two requests start
RaceSubmit ==
    /\ AllIdle
    /\ next_id <= MaxContainers
    /\ submit_container(Delivering, "alice",
                        CHOOSE b \in WorkflowSubmission : b.submitted_by = "alice")

RaceAdminReview ==
    \E cid \in ContainerIds :
        /\ AllIdle
        /\ StatusIs(cid, AdminReviewable)
        /\ admin_review_container(Delivering, "carol", cid, Rep("x", 10))

RaceRework ==
    \E cid \in ContainerIds :
        /\ AllIdle
        /\ ReworkBounded(cid)
        /\ StatusIs(cid, Reworkable("hod"))
        /\ request_rework(Delivering, "dave", cid, Rep("x", 10))

RaceSelect ==
    \E t \in Threads, op \in ReviewOps, cid \in ContainerIds :
        \E caller \in Authorized(op) :
            \E req_status \in IF op = "approve" THEN {"approved", "rejected"} ELSE {""} :
                SelectContainer(t, op, caller, cid, req_status)

RaceUpdate == \E t \in Threads : UpdateContainer(t)

InitRace ==
    /\ NoEngineCall
    /\ containers = <<>>
    /\ container_hazards = <<>>
    /\ hazard_pairs = <<>>
    /\ next_id = 1
    /\ container_attachments = {}
    /\ deletion_requests = <<>>
    /\ verification_codes = <<>>
    /\ inflight = [t \in Threads |-> Idle]
    /\ last = NoRequest

NextRace == RaceSubmit \/ RaceAdminReview \/ RaceRework \/ RaceSelect \/ RaceUpdate

SpecRace == InitRace /\ [][NextRace]_vars

(***************************************************************************)
(* SpecRequestRace: request_container_deletion at the granularity of its   *)
(* database statements.  The handler selects the container, selects a      *)
(* pending request for it, and inserts the new request, each statement on  *)
(* a connection of its own with no transaction around them.  Two requests  *)
(* run concurrently on a store prepared by whole requests.                 *)
(***************************************************************************)
\* the checks before the first statement, SELECT * FROM containers
\* WHERE id = $1, and the checks on the row
SelectRequestContainer(t, caller, cid, reason) ==
    LET code == IF caller = Anonymous THEN 401
                ELSE IF Role(caller) # "user" THEN 403
                ELSE IF ReasonRefused(reason) THEN 400
                ELSE IF cid \notin DOMAIN containers THEN 404
                ELSE IF containers[cid].submitted_by # caller THEN 403
                ELSE 0
    IN  /\ inflight[t].pc = "idle"
        /\ inflight' = [inflight EXCEPT ![t] =
               [Idle EXCEPT !.pc = IF code = 0 THEN "selected" ELSE "done",
                            !.op = "request_deletion", !.caller = caller,
                            !.cid = cid, !.code = code]]
        /\ UNCHANGED <<engine_vars, verification_codes, db_vars, last>>

\* SELECT * FROM deletion_requests WHERE container_id = $1 AND
\* status = 'pending', and "if existing_request"
SelectPendingRequest(t) ==
    /\ inflight[t].pc = "selected"
    /\ inflight' = [inflight EXCEPT ![t] =
           IF HasPendingRequest(inflight[t].cid)
           THEN [@ EXCEPT !.pc = "done", !.observed = "pending", !.code = 400]
           ELSE [@ EXCEPT !.pc = "checked"]]
    /\ UNCHANGED <<engine_vars, verification_codes, db_vars, last>>

\* INSERT INTO deletion_requests ..., and the 200 response
InsertDeletionRequest(t) ==
    /\ inflight[t].pc = "checked"
    /\ deletion_requests' = Append(deletion_requests,
           [container_id |-> inflight[t].cid, requested_by |-> inflight[t].caller,
            status |-> deletion_status_default,
            admin_reviewed |-> admin_reviewed_default])
    /\ inflight' = [inflight EXCEPT ![t].pc = "done", ![t].code = 200]
    /\ UNCHANGED <<engine_vars, verification_codes, containers, container_hazards, hazard_pairs,
                   next_id, container_attachments, last>>

\* whole requests that prepare the store before the two requests start
RequestRaceCreate ==
    \E cid \in ContainerIds :
        /\ AllIdle
        /\ Len(deletion_requests) < MaxRequests - 1
        /\ request_container_deletion(Delivering, "alice", cid, Rep("x", 20))

RequestRaceAdminReview ==
    \E rid \in RequestIds, recommendation \in {"approve", "reject"} :
        /\ AllIdle
        /\ rid \in DOMAIN deletion_requests
        /\ deletion_requests[rid].status = "pending"
        /\ admin_review_deletion(Delivering, "carol", rid, Rep("x", 10), recommendation)

RequestRaceSelectContainer ==
    \E t \in Threads, caller \in {"alice", "carol"}, cid \in ContainerIds :
        \E reason \in {Rep("x", 19), Rep("x", 20)} :
            SelectRequestContainer(t, caller, cid, reason)

RequestRaceSelectPending == \E t \in Threads : SelectPendingRequest(t)

RequestRaceInsert == \E t \in Threads : InsertDeletionRequest(t)

NextRequestRace ==
    \/ RaceSubmit
    \/ RequestRaceCreate
    \/ RequestRaceAdminReview
    \/ RequestRaceSelectContainer
    \/ RequestRaceSelectPending
    \/ RequestRaceInsert

SpecRequestRace == InitRace /\ [][NextRequestRace]_vars

(***************************************************************************)
(* SpecNotify: the requests that send a notification, made by callers the  *)
(* handlers accept, in every environment: HOD_EMAILS unset or set, and     *)
(* every message delivered or not.  One container is in the store at a     *)
(* time, and one deletion request is open at a time.                       *)
(***************************************************************************)
AllEnvironments == Environments(HodEmailSettings)

\* ContainerSubmission.submitted_by is any str: a user's name, or a name
\* the users table does not hold
NotifySubmission ==
    [submitted_by : {"alice", "mallory"},
     selected_hazards : {<<1, 9>>},
     hazard_pairs : {<<PairData(1, 9, Fin(200, 0))>>}]

NotifySubmit ==
    \E env \in AllEnvironments, submission \in NotifySubmission :
        /\ next_id <= MaxContainers
        /\ containers = <<>>
        /\ submit_container(env, "alice", submission)

NotifyAdminReview ==
    \E env \in AllEnvironments, cid \in ContainerIds :
        /\ StatusIs(cid, AdminReviewable)
        /\ admin_review_container(env, "carol", cid, Rep("x", 10))

NotifyRework ==
    \E env \in AllEnvironments, caller \in {"carol", "dave"}, cid \in ContainerIds :
        /\ ReworkBounded(cid)
        /\ StatusIs(cid, Reworkable(Role(caller)))
        /\ request_rework(env, caller, cid, Rep("x", 10))

NotifyApprove ==
    \E env \in AllEnvironments, cid \in ContainerIds, req_status \in {"approved", "rejected"} :
        /\ StatusIs(cid, Approvable)
        /\ approve_container(env, "dave", cid, req_status, Rep("x", 10))

NotifyUpdate ==
    \E env \in AllEnvironments, cid \in ContainerIds :
        /\ StatusIs(cid, {"rework_requested"})
        /\ update_container(env, "alice", cid,
                            CHOOSE b \in NotifySubmission : b.submitted_by = "alice")

NotifyRequestDeletion ==
    \E env \in AllEnvironments, cid \in ContainerIds :
        /\ Len(deletion_requests) < MaxRequests
        /\ \A rid \in DOMAIN deletion_requests :
               deletion_requests[rid].status \in {"approved", "rejected"}
        /\ request_container_deletion(env, "alice", cid, Rep("x", 20))

NotifyAdminReviewDeletion ==
    \E env \in AllEnvironments, rid \in DOMAIN deletion_requests :
        admin_review_deletion(env, "carol", rid, Rep("x", 10), "approve")

NotifyHodDecision ==
    \E env \in AllEnvironments, rid \in DOMAIN deletion_requests :
        \E decision \in {"approved", "rejected"} :
            hod_final_decision(env, "dave", rid, Rep("x", 10), decision)

NotifyDelete ==
    \E env \in AllEnvironments, cid \in ContainerIds :
        delete_container(env, "dave", cid, Rep("x", 10))

NextNotify ==
    \/ NotifySubmit
    \/ NotifyAdminReview
    \/ NotifyRework
    \/ NotifyApprove
    \/ NotifyUpdate
    \/ NotifyRequestDeletion
    \/ NotifyAdminReviewDeletion
    \/ NotifyHodDecision
    \/ NotifyDelete

SpecNotify == Init /\ [][NextNotify]_vars

(* SpecLogin: the login requests, for every e-mail and code, with the       *)
(* message of a code delivered or not, and codes expiring                   *)
RequestCode ==
    \E env \in AllEnvironments, auth_email \in Emails, code \in Codes :
        request_verification_code(env, auth_email, code)

VerifyCode ==
    \E verify_email \in Emails, submitted \in SubmittedCodes :
        verify_code(verify_email, submitted)

ExpireCode == \E email \in DOMAIN verification_codes : expire_code(email)

NextLogin == RequestCode \/ VerifyCode \/ ExpireCode

SpecLogin == Init /\ [][NextLogin]_vars

(***************************************************************************)
(* Properties of calculate_hazard_status (SpecEngine)                      *)
(***************************************************************************)
\* The action the rule table holds for two classes, looked up in both orders
\* of the key; "NONE" when the table has no entry.
TableAction(a, b) ==
    LET code_a == ClassCode(a)
        code_b == ClassCode(b)
    IN  IF <<code_a, code_b>> \in DOMAIN compatibility_matrix
        THEN compatibility_matrix[<<code_a, code_b>>][1]
        ELSE IF <<code_b, code_a>> \in DOMAIN compatibility_matrix
        THEN compatibility_matrix[<<code_b, code_a>>][1]
        ELSE "NONE"

\* class_a and class_b are classes of the 11-class vocabulary, by code or name
InVocabulary == ClassCode(class_a) \in ClassCodes /\ ClassCode(class_b) \in ClassCodes

NonNegative(d) == FGe(d, Fin(0, 0))

\* d >= 0.6 * m over the reals, for a finite m of whole metres.  0.6 * m is
\* the decimal (60 * m.h) / 100 hundredths; the double nearest to 1.8 is
\* above 1.8 and the double 3.0 is 3, so at equal hundredths the sign of the
\* ulp offset decides.
AtLeast60Percent(d, m) ==
    \/ d.kind = "inf"
    \/ 100 * d.h > 60 * m.h
    \/ (100 * d.h = 60 * m.h /\ d.u >= 0)

\* C1: for every two classes of the 11-class vocabulary and every distance,
\* calculate_hazard_status(A, B, d) and calculate_hazard_status(B, A, d)
\* return the same (status, is_isolated, min_required_distance).
C1_Symmetry ==
    (InVocabulary /\ result # NoVerdict /\ result_swapped # NoVerdict)
        => result = result_swapped

C1_Witness ==
    /\ class_a = "5.2"
    /\ class_b = "Flammable Gas"
    /\ result = Verdict("danger", TRUE, INF)
    /\ result_swapped = result

\* C2: for every pair whose table action is ISOLATE and every distance
\* d >= 0 the result is danger, is_isolated = true, with the unbounded
\* minimum distance.
C2_Isolate ==
    (result # NoVerdict /\ TableAction(class_a, class_b) = "ISOLATE"
                        /\ NonNegative(distance))
        => result = Verdict("danger", TRUE, INF)

C2_Witness ==
    /\ TableAction(class_a, class_b) = "ISOLATE"
    /\ distance = Fin(600, 0)
    /\ result = Verdict("danger", TRUE, INF)

\* C3: for every SEGREGATE_3M (m = 3) or SEGREGATE_5M (m = 5) pair and every
\* distance d >= 0, the status is safe iff d >= m, caution iff
\* 0.6 * m <= d < m, and danger iff d < 0.6 * m.
C3_Bands ==
    (/\ result # NoVerdict
     /\ TableAction(class_a, class_b) \in {"SEGREGATE_3M", "SEGREGATE_5M"}
     /\ NonNegative(distance))
        => LET m == IF TableAction(class_a, class_b) = "SEGREGATE_3M"
                    THEN Fin(300, 0) ELSE Fin(500, 0)
           IN  /\ result.status = "safe" <=> FGe(distance, m)
               /\ result.status = "caution" <=>
                      (AtLeast60Percent(distance, m) /\ ~FGe(distance, m))
               /\ result.status = "danger" <=> ~AtLeast60Percent(distance, m)

\* C4: for every pair whose table action is OK_TOGETHER and every distance
\* d >= 0 the result is safe, is_isolated = false, minimum distance 0.
C4_OkTogether ==
    (result # NoVerdict /\ TableAction(class_a, class_b) = "OK_TOGETHER"
                        /\ NonNegative(distance))
        => result = Verdict("safe", FALSE, Fin(0, 0))

C4_Witness ==
    /\ TableAction(class_a, class_b) = "OK_TOGETHER"
    /\ distance = Fin(1, 0)
    /\ result = Verdict("safe", FALSE, Fin(0, 0))

\* C5: for a MAY_NOT_COMPATIBLE pair, the same class on both sides is safe at
\* every distance; two different classes follow the 3 m rule: safe iff
\* d >= 3, caution iff 1.8 <= d < 3, danger otherwise.
C5_MayNotCompatible ==
    (result # NoVerdict /\ TableAction(class_a, class_b) = "MAY_NOT_COMPATIBLE")
        => IF ClassCode(class_a) = ClassCode(class_b)
           THEN result.status = "safe"
           ELSE /\ result.status = "safe" <=> FGe(distance, Fin(300, 0))
                /\ result.status = "caution" <=>
                       (FGe(distance, Fin(180, 0)) /\ ~FGe(distance, Fin(300, 0)))
                /\ result.status = "danger" <=> ~FGe(distance, Fin(180, 0))

\* C6: when the rule table has no entry for the pair, the call returns what
\* it returns for a SEGREGATE_3M pair at the same distance: minimum 3 m,
\* is_isolated = false, and the status of the 3 m bands.
C6_UnknownPair ==
    (result # NoVerdict /\ TableAction(class_a, class_b) = "NONE")
        => /\ result = calculate_hazard_status("2.1", "2.3", distance)
           /\ result.min_required_distance = Fin(300, 0)
           /\ result.is_isolated = FALSE
           /\ result.status \in {"safe", "caution", "danger"}

C6_Witness ==
    /\ class_a = "Explosive"
    /\ class_b = "2.1"
    /\ distance = Fin(200, 0)
    /\ result = Verdict("caution", FALSE, Fin(300, 0))

\* C23: a call with a class code outside the hazard-class vocabulary yields
\* a caller error, not a verdict, and in particular not the verdict given to
\* a pair that has no table entry.
C23_InvalidClassError ==
    (result # NoVerdict /\ ~InVocabulary)
        => /\ result.status \notin {"safe", "caution", "danger"}
           /\ result # DistanceBands(distance, Fin(300, 0))

(***************************************************************************)
(* Properties of what is stored and returned (SpecStore)                   *)
(***************************************************************************)
\* the engine's result for a declared pair, with the unbounded minimum as null
Assessment(pair_data) ==
    LET v == calculate_hazard_status(hazard_categories[pair_data.hazard_category_a_id],
                                     hazard_categories[pair_data.hazard_category_b_id],
                                     pair_data.distance)
    IN  Verdict(v.status, v.is_isolated,
                IF v.min_required_distance = INF THEN NULL
                ELSE v.min_required_distance)

\* a hazard_pairs row is the assessment of a declared pair
RowAssesses(row, pair_data) ==
    /\ row.hazard_category_a_id = pair_data.hazard_category_a_id
    /\ row.hazard_category_b_id = pair_data.hazard_category_b_id
    /\ row.distance = pair_data.distance
    /\ Verdict(row.status, row.is_isolated, row.min_required_distance)
           = Assessment(pair_data)

\* C7: every successful submit creates the container in pending_review and
\* stores exactly one assessment per declared hazard pair, equal to the
\* engine's result for that pair and distance; classes 2.1 and 5.2 at 2.0 are
\* stored as danger, is_isolated = true, min_required_distance = null.
C7_SubmitStores ==
    (last.op = "submit" /\ last.code = 200)
        => /\ last.cid \in DOMAIN containers
           /\ containers[last.cid].status = "pending_review"
           /\ Len(hazard_pairs[last.cid]) = Len(last.pairs)
           /\ \A i \in DOMAIN last.pairs :
                  /\ RowAssesses(hazard_pairs[last.cid][i], last.pairs[i])
                  /\ (last.pairs[i] = PairData(1, 9, Fin(200, 0))
                        => /\ hazard_pairs[last.cid][i].status = "danger"
                           /\ hazard_pairs[last.cid][i].is_isolated = TRUE
                           /\ hazard_pairs[last.cid][i].min_required_distance = NULL)

C7_Witness ==
    /\ last.op = "submit"
    /\ last.code = 200
    /\ last.pairs = <<PairData(1, 9, Fin(200, 0))>>
    /\ containers[last.cid].status = "pending_review"
    /\ Len(hazard_pairs[last.cid]) = 1
    /\ hazard_pairs[last.cid][1].status = "danger"
    /\ hazard_pairs[last.cid][1].min_required_distance = NULL

\* min_required_distance is null exactly for an ISOLATE pair, else 0, 3 or 5
NullIffIsolate(min_required_distance, a_id, b_id) ==
    IF TableAction(hazard_categories[a_id], hazard_categories[b_id]) = "ISOLATE"
    THEN min_required_distance = NULL
    ELSE min_required_distance \in {Fin(0, 0), Fin(300, 0), Fin(500, 0)}

\* C8: in every pair assessment stored by submit or resubmit and in every
\* preview response, min_required_distance is null exactly when the pair's
\* action is ISOLATE and one of the finite numbers 0, 3, 5 otherwise.
C8_NullIffIsolate ==
    /\ \A cid \in DOMAIN hazard_pairs :
           \A i \in DOMAIN hazard_pairs[cid] :
               NullIffIsolate(hazard_pairs[cid][i].min_required_distance,
                              hazard_pairs[cid][i].hazard_category_a_id,
                              hazard_pairs[cid][i].hazard_category_b_id)
    /\ (last.op = "preview" /\ last.code = 200)
           => NullIffIsolate(last.body.min_required_distance,
                             last.pairs[1].hazard_category_a_id,
                             last.pairs[1].hazard_category_b_id)

\* a preview of an ISOLATE pair, while a resubmitted container holds the
\* assessment of an ISOLATE pair
C8_Witness ==
    /\ last.op = "preview"
    /\ last.code = 200
    /\ last.body = Verdict("danger", TRUE, NULL)
    /\ \E cid \in DOMAIN containers :
           /\ containers[cid].rework_count = <<1>>
           /\ containers[cid].status = "pending_review"
           /\ \E i \in DOMAIN hazard_pairs[cid] :
                  /\ hazard_pairs[cid][i].is_isolated
                  /\ hazard_pairs[cid][i].min_required_distance = NULL

C25_ResubmitReplaces ==
    (last.op = "update" /\ last.code = 200)
        => /\ containers[last.cid].status = "pending_review"
           /\ container_hazards[last.cid] = last.hazards
           /\ Len(hazard_pairs[last.cid]) = Len(last.pairs)
           /\ \A i \in DOMAIN last.pairs :
                  RowAssesses(hazard_pairs[last.cid][i], last.pairs[i])

\* a resubmit that declared no pair and selected one hazard
C25_Witness ==
    /\ last.op = "update"
    /\ last.code = 200
    /\ last.hazards = <<3>>
    /\ last.pairs = <<>>
    /\ containers[last.cid].rework_count = <<1>>
    /\ container_hazards[last.cid] = <<3>>
    /\ hazard_pairs[last.cid] = <<>>

\* the request declares a pair with a distance of zero or less
DeclaresNonPositive(pairs) ==
    \E i \in DOMAIN pairs : FGe(Fin(0, 0), pairs[i].distance)

\* C29: a submit or resubmit that declares a hazard pair with a non-positive
\* distance is rejected as a validation error and changes no container,
\* hazard link or pair assessment.
C29_NonPositiveRejected ==
    [][ (last'.op \in {"submit", "update"} /\ DeclaresNonPositive(last'.pairs))
            => /\ last'.code \in 400..499
               /\ UNCHANGED <<containers, container_hazards, hazard_pairs>>
      ]_vars

\* the stored rows of the pair and distance a preview was asked for
RowsOfPair(pair_data) ==
    {row \in UNION {{hazard_pairs[cid][i] : i \in DOMAIN hazard_pairs[cid]}
                       : cid \in DOMAIN hazard_pairs} :
        /\ row.hazard_category_a_id = pair_data.hazard_category_a_id
        /\ row.hazard_category_b_id = pair_data.hazard_category_b_id
        /\ row.distance = pair_data.distance}

\* C30: a preview changes no container, pair assessment or deletion request,
\* and for two existing hazard categories it returns the status, is_isolated
\* and min_required_distance that a submit stored for the same pair and
\* distance.
C30_PreviewAgrees ==
    [][ last'.op = "preview" =>
          /\ UNCHANGED db_vars
          /\ last'.code = 200 =>
                 \A row \in RowsOfPair(last'.pairs[1]) :
                     last'.body = Verdict(row.status, row.is_isolated,
                                          row.min_required_distance)
      ]_vars

\* a preview of classes 2.1 and 5.2 at 2.0 while a container holds the
\* assessment of that pair at that distance
C30_Witness ==
    /\ last.op = "preview"
    /\ last.code = 200
    /\ last.pairs = <<PairData(1, 9, Fin(200, 0))>>
    /\ last.body = Verdict("danger", TRUE, NULL)
    /\ RowsOfPair(last.pairs[1]) # {}

(***************************************************************************)
(* Properties of the review steps (Spec)                                   *)
(***************************************************************************)
\* C9: an admin review succeeds only for a caller with role admin on a
\* container in pending_review, and sets its status to pending; on a
\* container that is already pending it fails and leaves the store unchanged,
\* and the error an admin then gets names the status pending.
C9_AdminReview ==
    [][ last'.op = "admin_review" =>
          /\ last'.code = 200 =>
                 /\ HasRole(last'.caller, "admin")
                 /\ StatusIs(last'.cid, {"pending_review"})
                 /\ containers'[last'.cid].status = "pending"
          /\ StatusIs(last'.cid, {"pending"}) =>
                 /\ last'.code # 200
                 /\ UNCHANGED db_vars
                 /\ (HasRole(last'.caller, "admin") /\ ~CommentRefused(last'.comment))
                        => (last'.code = 400 /\ last'.detail = "pending")
      ]_vars

C9_Witness ==
    /\ last.op = "admin_review"
    /\ last.caller = "carol"
    /\ last.code = 400
    /\ last.detail = "pending"
    /\ containers[last.cid].status = "pending"

C11_StatusDomain ==
    /\ \A cid \in DOMAIN containers :
           containers[cid].status \in
               {"pending_review", "pending", "rework_requested", "approved", "rejected"}
    /\ (last.op = "approve" /\ last.code = 200)
           => containers[last.cid].status \in {"approved", "rejected"}

\* C12: once a container's status is approved or rejected, no admin review,
\* rework request, resubmit or HOD decision on it succeeds, and its status
\* does not change for as long as the container exists.
C12_Terminal ==
    [][ \A cid \in DOMAIN containers :
            containers[cid].status \in {"approved", "rejected"} =>
                /\ cid \in DOMAIN containers' =>
                       containers'[cid].status = containers[cid].status
                /\ (last'.op \in ReviewOps /\ last'.cid = cid) => last'.code # 200
      ]_vars

C12_Witness ==
    /\ last.op = "rework"
    /\ last.caller = "dave"
    /\ last.code = 400
    /\ containers[last.cid].status = "rejected"

\* the caller and status from which request_rework may act
ReworkAllowed(caller, cid) ==
    \/ HasRole(caller, "admin") /\ StatusIs(cid, {"pending_review"})
    \/ HasRole(caller, "hod") /\ StatusIs(cid, {"pending_review", "pending"})

UpdateAllowed(caller, cid) ==
    StatusIs(cid, {"rework_requested"}) /\ containers[cid].submitted_by = caller

TooShort(text) == text = None \/ Len(Strip(text)) < 10

\* C21: an admin review, an HOD decision or a rework request whose comment or
\* reason is empty, or shorter than 10 characters after trimming, is rejected
\* and leaves the container unchanged.
C21_ShortCommentRejected ==
    [][ (last'.op \in {"admin_review", "approve", "rework"} /\ TooShort(last'.comment))
            => (last'.code # 200 /\ UNCHANGED containers)
      ]_vars

(***************************************************************************)
(* Properties of the notifications (SpecNotify)                            *)
(***************************************************************************)
\* the state change of a successful request is in the store
Applied(op, cid, choice, before, after, requests_before, requests_after) ==
    CASE op = "submit" ->
            /\ cid \notin DOMAIN before
            /\ cid \in DOMAIN after
            /\ after[cid].status = "pending_review"
      [] op = "admin_review" -> after[cid].status = "pending"
      [] op = "rework" ->
            /\ after[cid].status = "rework_requested"
            /\ after[cid].rework_count = <<before[cid].rework_count[1] + 1>>
      [] op = "approve" -> after[cid].status = choice
      [] op = "update" -> after[cid].status = "pending_review"
      [] op = "request_deletion" ->
            /\ Len(requests_after) = Len(requests_before) + 1
            /\ requests_after[Len(requests_after)].container_id = cid
      [] op = "admin_review_deletion" -> requests_after[cid].status = "admin_reviewed"
      [] op = "hod_decision" ->
            /\ requests_after[cid].status = choice
            /\ choice = "approved" => requests_after[cid].container_id \notin DOMAIN after

\* the requests C22 names
NotifyingOps ==
    {"submit", "admin_review", "rework", "approve", "update",
     "request_deletion", "admin_review_deletion", "hod_decision"}

\* C22: for submit, admin review, rework request, HOD decision, resubmit and
\* the steps of a deletion request, when the delivery of a notification
\* fails the state change is applied all the same and the response is a
\* success.
C22_DeliveryFailureKeeps ==
    [][ (last'.op \in NotifyingOps /\ last'.mail # <<>> /\ ~Delivered(last'.mail))
            => /\ last'.code = 200
               /\ Applied(last'.op, last'.cid, last'.choice, containers, containers',
                          deletion_requests, deletion_requests')
      ]_vars

\* an admin review whose two messages were both refused by the SMTP server
C22_Witness ==
    /\ last.op = "admin_review"
    /\ last.code = 200
    /\ Len(last.mail) = 2
    /\ ~last.mail[1].delivered
    /\ ~last.mail[2].delivered
    /\ containers[last.cid].status = "pending"

\* the stakeholder of a container transition: the reviewers for a submit or
\* a resubmit, the next-stage reviewer for an admin review, the submitter for
\* a rework request or an HOD decision
Stakeholder(op, cid, to) ==
    CASE op \in {"submit", "update"} -> to = SAFETY_TEAM_EMAIL
      [] op = "admin_review" -> HasRole(to, "hod")
      [] op \in {"rework", "approve"} -> to = containers[cid].submitted_by

\* C26: each successful submit, admin review, rework request, HOD decision
\* and resubmit sends exactly one notification, addressed to the stakeholder
\* of that transition.
C26_OneNotification ==
    (last.op \in {"submit", "admin_review", "rework", "approve", "update"}
        /\ last.code = 200)
        => /\ Len(last.mail) = 1
           /\ Stakeholder(last.op, last.cid, last.mail[1].to)

(***************************************************************************)
(* Properties of concurrent requests (SpecRace)                            *)
(***************************************************************************)
\* C15: with the handlers interleaved statement by statement, two transition
\* requests on the same container that observed the same status never both
\* succeed.
C15_OneTransition ==
    \A t1, t2 \in DOMAIN inflight :
        (/\ t1 # t2
         /\ inflight[t1].pc = "done"
         /\ inflight[t2].pc = "done"
         /\ inflight[t1].cid = inflight[t2].cid
         /\ inflight[t1].observed = inflight[t2].observed)
            => ~(inflight[t1].code = 200 /\ inflight[t2].code = 200)

(***************************************************************************)
(* Properties of deletion requests (SpecDelete)                            *)
(***************************************************************************)
\* the deletion request exists with one of the statuses
RequestIs(rid, statuses) ==
    rid \in DOMAIN deletion_requests /\ deletion_requests[rid].status \in statuses

\* no row of any table belongs to the container
Gone(cid) ==
    /\ cid \notin DOMAIN containers
    /\ cid \notin DOMAIN container_hazards
    /\ cid \notin DOMAIN hazard_pairs
    /\ \A a \in container_attachments : a[1] # cid

\* C16: an HOD decision on a deletion request succeeds only for a caller with
\* role hod on a request in admin_reviewed; on a request still pending it
\* fails and changes neither the request nor the container.
C16_HodDecisionGuard ==
    [][ last'.op = "hod_decision" =>
          /\ last'.code = 200 =>
                 /\ HasRole(last'.caller, "hod")
                 /\ RequestIs(last'.cid, {"admin_reviewed"})
          /\ RequestIs(last'.cid, {"pending"}) =>
                 (last'.code # 200 /\ UNCHANGED db_vars)
      ]_vars

C16_Witness ==
    /\ last.op = "hod_decision"
    /\ last.caller = "dave"
    /\ last.choice = "approved"
    /\ last.code = 400
    /\ deletion_requests[last.cid].status = "pending"
    /\ deletion_requests[last.cid].container_id \in DOMAIN containers

\* C17: after an HOD approval of an admin-reviewed deletion request, the
\* container the request refers to and all its hazard links, pair
\* assessments and attachments no longer exist.
C17_ApprovalDeletes ==
    (last.op = "hod_decision" /\ last.code = 200 /\ last.choice = "approved")
        => /\ deletion_requests[last.cid].status = "approved"
           /\ Gone(deletion_requests[last.cid].container_id)

C17_Witness ==
    /\ last.op = "hod_decision"
    /\ last.code = 200
    /\ last.choice = "approved"
    /\ deletion_requests[last.cid].container_id < next_id
    /\ Gone(deletion_requests[last.cid].container_id)

\* C18: an HOD rejection of a deletion request changes only that request,
\* whose status becomes rejected: the container, its hazard links, its pair
\* assessments and its attachments are as before.
C18_RejectionKeeps ==
    [][ (last'.op = "hod_decision" /\ last'.code = 200 /\ last'.choice = "rejected") =>
          /\ UNCHANGED <<containers, container_hazards, hazard_pairs,
                         container_attachments, next_id>>
          /\ deletion_requests' =
                 [deletion_requests EXCEPT ![last'.cid].status = "rejected"]
      ]_vars

C18_Witness ==
    /\ last.op = "hod_decision"
    /\ last.code = 200
    /\ last.choice = "rejected"
    /\ deletion_requests[last.cid].status = "rejected"
    /\ deletion_requests[last.cid].container_id \in DOMAIN containers
    /\ <<deletion_requests[last.cid].container_id, "front">> \in container_attachments

\* the caller, container and reason for which a deletion request is created
CreationAllowed(caller, cid, reason) ==
    /\ HasRole(caller, "user")
    /\ cid \in DOMAIN containers
    /\ containers[cid].submitted_by = caller
    /\ reason # None
    /\ Len(Strip(reason)) >= 20
    /\ ~HasPendingRequest(cid)

\* C19: a deletion request is created, in status pending, only when the
\* caller has role user and submitted the container, the trimmed reason has
\* at least 20 characters and no request for the container is pending; in
\* every other case creation fails and no request is added.
C19_RequestCreation ==
    [][ last'.op = "request_deletion" =>
          /\ last'.code = 200 =>
                 /\ CreationAllowed(last'.caller, last'.cid, last'.comment)
                 /\ Len(deletion_requests') = Len(deletion_requests) + 1
                 /\ SubSeq(deletion_requests', 1, Len(deletion_requests)) = deletion_requests
                 /\ deletion_requests'[Len(deletion_requests')].status = "pending"
                 /\ deletion_requests'[Len(deletion_requests')].container_id = last'.cid
          /\ ~CreationAllowed(last'.caller, last'.cid, last'.comment) =>
                 (last'.code # 200 /\ UNCHANGED deletion_requests)
      ]_vars

\* a second request for a container whose first request is admin-reviewed
C19_Witness ==
    /\ last.op = "request_deletion"
    /\ last.code = 200
    /\ Len(deletion_requests) = 2
    /\ deletion_requests[1].container_id = last.cid
    /\ deletion_requests[1].status = "admin_reviewed"
    /\ deletion_requests[2].container_id = last.cid
    /\ deletion_requests[2].status = "pending"

\* C20: an admin review of a deletion request succeeds only for a caller with
\* role admin, a recommendation of approve or reject and a comment of at
\* least 10 characters on a request in pending, and sets its status to
\* admin_reviewed; a request already admin-reviewed is never reviewed again.
C20_AdminReviewDeletion ==
    [][ last'.op = "admin_review_deletion" =>
          /\ last'.code = 200 =>
                 /\ HasRole(last'.caller, "admin")
                 /\ last'.choice \in {"approve", "reject"}
                 /\ last'.comment # None
                 /\ Len(Strip(last'.comment)) >= 10
                 /\ RequestIs(last'.cid, {"pending"})
                 /\ deletion_requests'[last'.cid].status = "admin_reviewed"
          /\ (/\ last'.cid \in DOMAIN deletion_requests
              /\ deletion_requests[last'.cid].admin_reviewed) =>
                 (last'.code # 200 /\ UNCHANGED deletion_requests)
      ]_vars

C20_Witness ==
    /\ last.op = "admin_review_deletion"
    /\ last.caller = "carol"
    /\ last.choice = "approve"
    /\ last.code = 400
    /\ deletion_requests[last.cid].status = "admin_reviewed"

\* C27: every deletion request whose status is pending or admin_reviewed
\* refers to a container that still exists: neither a direct delete nor the
\* approval of another request removes the container from under it.
C27_OpenRequestHasContainer ==
    \A rid \in DOMAIN deletion_requests :
        deletion_requests[rid].status \in {"pending", "admin_reviewed"}
            => deletion_requests[rid].container_id \in DOMAIN containers

\* the request that removed the container is a direct delete by an hod with a
\* reason of at least 10 characters
DirectDelete(request, cid) ==
    /\ request.op = "delete"
    /\ request.cid = cid
    /\ request.comment # None
    /\ Len(Strip(request.comment)) >= 10

\* the request that removed the container is the approval of an
\* admin-reviewed deletion request for it
ApprovedDeletion(request, cid) ==
    /\ request.op = "hod_decision"
    /\ request.choice = "approved"
    /\ RequestIs(request.cid, {"admin_reviewed"})
    /\ deletion_requests[request.cid].container_id = cid

C31_RequestTerminal ==
    [][ \A rid \in DOMAIN deletion_requests :
            deletion_requests[rid].status \in {"approved", "rejected"} =>
                /\ rid \in DOMAIN deletion_requests'
                /\ deletion_requests'[rid].status = deletion_requests[rid].status
                /\ (/\ last'.op \in {"admin_review_deletion", "hod_decision"}
                    /\ last'.cid = rid) => last'.code # 200
      ]_vars

\* the HOD approves a request the HOD has rejected, and is refused
C31_Witness ==
    /\ last.op = "hod_decision"
    /\ last.caller = "dave"
    /\ last.choice = "approved"
    /\ last.code = 400
    /\ last.cid \in DOMAIN deletion_requests
    /\ deletion_requests[last.cid].status = "rejected"
    /\ deletion_requests[last.cid].container_id \in DOMAIN containers

\* the keys of the rule table for two class codes, in either order
TableKeys(code_a, code_b) ==
    {<<code_a, code_b>>, <<code_b, code_a>>} \cap DOMAIN compatibility_matrix

\* C32: the rule table is complete over the vocabulary: each of the 66
\* unordered pairs (identical pairs included) of the 11 class codes has an
\* entry under its sorted key, so for two known classes the lookup never
\* falls through to the SEGREGATE_3M default: the result is the one the
\* entry of the pair prescribes.
C32_TableComplete ==
    /\ Cardinality(ClassCodes) = 11
    /\ Cardinality(DOMAIN compatibility_matrix) = 66
    /\ \A a \in ClassCodes : \A b \in ClassCodes :
           StrRank(a) <= StrRank(b) => <<a, b>> \in DOMAIN compatibility_matrix
    /\ (InVocabulary /\ result # NoVerdict) =>
           LET code_a == ClassCode(class_a)
               code_b == ClassCode(class_b)
           IN  /\ TableKeys(code_a, code_b) # {}
               /\ \A key \in TableKeys(code_a, code_b) :
                      result = ProcessAction(compatibility_matrix[key][1],
                                             compatibility_matrix[key][2],
                                             code_a, code_b, distance)

\* a SEGREGATE_5M pair given in descending order, at a distance that is safe
\* under the default and caution under the entry
C32_Witness ==
    /\ class_a = "8"
    /\ class_b = "2.1"
    /\ distance = Fin(301, 0)
    /\ result = Verdict("caution", FALSE, Fin(500, 0))

\* danger < caution < safe
StatusRank(status) ==
    CASE status = "danger" -> 0
      [] status = "caution" -> 1
      [] status = "safe" -> 2

\* C33: for a fixed pair of classes the verdict is monotone in the distance:
\* for all 0 <= d1 <= d2 the status at d2 is never worse than the status at
\* d1 in the order danger < caution < safe, and is_isolated and
\* min_required_distance do not depend on the distance.  (d1 is the distance
\* of the call, d2 every distance of the grid at or above it.)
C33_Monotone ==
    (result # NoVerdict /\ NonNegative(distance)) =>
        \A d2 \in Distances :
            FGe(d2, distance) =>
                LET farther == calculate_hazard_status(class_a, class_b, d2)
                IN  /\ StatusRank(farther.status) >= StatusRank(result.status)
                    /\ farther.is_isolated = result.is_isolated
                    /\ farther.min_required_distance = result.min_required_distance

\* a pair that is danger at 1.79 m, caution at 1.8 m and safe at 3 m
C33_Witness ==
    /\ class_a = "Toxic Gas"
    /\ class_b = "2.1"
    /\ distance = Fin(179, 0)
    /\ result.status = "danger"
    /\ calculate_hazard_status(class_a, class_b, Fin(180, 0)).status = "caution"
    /\ calculate_hazard_status(class_a, class_b, Fin(300, 0)).status = "safe"

\* C34: every result of calculate_hazard_status is internally consistent:
\* the status is safe, caution or danger; min_required_distance is 0, 3, 5
\* or unbounded; is_isolated is true exactly when min_required_distance is
\* unbounded; is_isolated implies danger; min_required_distance = 0 implies
\* safe.
C34_Consistent ==
    result # NoVerdict =>
        /\ result.status \in {"safe", "caution", "danger"}
        /\ \E m \in {Fin(0, 0), Fin(300, 0), Fin(500, 0), INF} :
               FEq(result.min_required_distance, m)
        /\ result.is_isolated <=> FEq(result.min_required_distance, INF)
        /\ result.is_isolated => result.status = "danger"
        /\ FEq(result.min_required_distance, Fin(0, 0)) => result.status = "safe"

\* an isolated pair at a distance below zero
C34_Witness ==
    /\ TableAction(class_a, class_b) = "ISOLATE"
    /\ distance = Fin(-100, 0)
    /\ result.is_isolated
    /\ result.status = "danger"
    /\ FEq(result.min_required_distance, INF)

\* the workflow operations on containers and deletion requests
WorkflowOps ==
    {"submit", "admin_review", "rework", "approve", "update", "delete",
     "request_deletion", "admin_review_deletion", "hod_decision"}

\* containers.id -> status
ContainerStatuses == [cid \in DOMAIN containers |-> containers[cid].status]

\* deletion_requests.id -> status
RequestStatuses ==
    [rid \in DOMAIN deletion_requests |-> deletion_requests[rid].status]

\* C35: every workflow operation that reports an error to the caller (submit,
\* admin review, rework request, HOD decision, resubmit, direct delete,
\* deletion-request creation, deletion admin review, deletion HOD decision)
\* leaves the status of every container and of every deletion request, and
\* the existence of every container, exactly as they were before the call.
C35_ErrorLeavesState ==
    [][ (last'.op \in WorkflowOps /\ last'.code # 200) =>
            /\ ContainerStatuses' = ContainerStatuses
            /\ RequestStatuses' = RequestStatuses
      ]_vars

\* C36: the submitter recorded on a container at submit is the authenticated
\* caller: after a successful submit, submitted_by of the new container is
\* the name of the user who made the request (so that the ownership checks
\* of resubmit and of deletion-request creation, which compare submitted_by
\* with the caller's name, admit exactly the user who submitted).
C36_SubmitterIsCaller ==
    (last.op = "submit" /\ last.code = 200) =>
        /\ last.cid \in DOMAIN containers
        /\ containers[last.cid].submitted_by = last.caller

C39_FlagMatchesStatus ==
    \A rid \in DOMAIN deletion_requests :
        LET row == deletion_requests[rid]
        IN  /\ row.status \in {"pending", "admin_reviewed", "approved", "rejected"}
            /\ row.admin_reviewed <=>
                   row.status \in {"admin_reviewed", "approved", "rejected"}
            /\ ~row.admin_reviewed <=> row.status = "pending"

\* a decided request with the flag set beside a pending one without it
C39_Witness ==
    /\ Len(deletion_requests) = 2
    /\ deletion_requests[1].status = "rejected"
    /\ deletion_requests[1].admin_reviewed
    /\ deletion_requests[2].status = "pending"
    /\ ~deletion_requests[2].admin_reviewed

\* C37: with the request handlers interleaved at the granularity of their
\* database statements, in every reachable state at most one deletion
\* request per container has status pending.
C37_OnePendingRequest ==
    \A cid \in ContainerIds :
        Cardinality({rid \in DOMAIN deletion_requests :
                        /\ deletion_requests[rid].container_id = cid
                        /\ deletion_requests[rid].status = "pending"}) <= 1

\* the codes stored for the other e-mails stay as they are
OtherCodesKept(email) ==
    \A other \in (DOMAIN verification_codes \cup DOMAIN verification_codes') \ {email} :
        /\ other \in DOMAIN verification_codes
        /\ other \in DOMAIN verification_codes'
        /\ verification_codes'[other] = verification_codes[other]

\* C40: a login verification code is single-use and per-email.  A code is
\* accepted only when it is the code stored for the e-mail of the request;
\* a successful verify_code removes it, and with no code stored every
\* verify_code fails, a code being stored again only by a new request; a
\* wrong code fails and leaves the stored code; a request for a new code
\* replaces the stored one, so that only the latest code is accepted.
C40_SingleUseCode ==
    [][ LET email == NormalEmail(last'.comment)
        IN  /\ last'.op = "verify_code" =>
                  /\ last'.code = 200 =>
                         /\ email \in DOMAIN verification_codes
                         /\ verification_codes[email] = last'.choice
                         /\ email \notin DOMAIN verification_codes'
                         /\ OtherCodesKept(email)
                  /\ last'.code # 200 => UNCHANGED verification_codes
                  /\ email \notin DOMAIN verification_codes => last'.code # 200
                  /\ (/\ email \in DOMAIN verification_codes
                      /\ verification_codes[email] # last'.choice) => last'.code # 200
            /\ last'.op = "request_code" =>
                  IF last'.code = 404
                  THEN UNCHANGED verification_codes
                  ELSE /\ email \in DOMAIN verification_codes'
                       /\ verification_codes'[email] = last'.choice
                       /\ OtherCodesKept(email)
            /\ \A key \in DOMAIN verification_codes' :
                  key \notin DOMAIN verification_codes =>
                      (last'.op = "request_code" /\ key = email)
      ]_vars

\* a code verified for an e-mail written in capitals, the code of another
\* e-mail still stored
C40_Witness ==
    /\ last.op = "verify_code"
    /\ last.comment = <<"A", "L", " ">>
    /\ last.code = 200
    /\ <<"a", "l">> \notin DOMAIN verification_codes
    /\ <<"b", "o">> \in DOMAIN verification_codes

====
